---- MODULE Spec2Model ----
(***************************************************************************)
(* Model of the scheduler's domain: the Task lifecycle (models/task.rs),   *)
(* the Schedule and its conflict check (models/schedule.rs), the JSON      *)
(* storage (storage/json_storage.rs) and the CLI / GUI commands that       *)
(* insert tasks into stored schedules (cli/commands.rs, src-tauri/main.rs).*)
(*                                                                         *)
(* Instants (DateTime<Local>) are integers counting clock ticks;           *)
(* TicksPerMinute ticks make one minute, so that chrono's num_minutes()    *)
(* truncates.  Option<T> is a sequence: <<>> is None and <<x>> is Some(x). *)
(***************************************************************************)
EXTENDS Integers, Sequences, FiniteSets, TLC

\* ------------------------------------------------------------------ bounds
TicksPerMinute == 2     \* clock resolution: ticks per minute
MaxNow == 5             \* last instant the clock reaches (task lifecycle)
MaxTime == 2            \* planned instants of the Schedule API are 0..MaxTime
MaxTasks == 2           \* tasks held by one schedule
MaxIds == 2             \* ids handed out by Task::new
MinutesPerDay == 2      \* HH:MM values of one day are 0..MinutesPerDay-1
MaxDay == 2             \* calendar days are 1..MaxDay
MaxStored == 2          \* tasks held by one stored schedule
MaxStoreIds == 2        \* ids handed out by Task::new to the CLI and GUI commands
MaxPomodoros == 2       \* slices one tracker completes
MaxAcctTasks == 2       \* tasks of the day the accountability is taken of
MaxWastedTasks == 2     \* tasks of the day the wasted time is taken of
MaxSlices == 8          \* slices completed on a PomodoroSession used on its own
MaxStreak == 3          \* days a streak runs
MaxEditTasks == 2       \* tasks of the one-day schedule the commands edit
MaxChanges == 1         \* entries of that schedule's change log
MaxLookupTasks == 2     \* tasks of the schedule the current and next task are looked up in
MaxPureTasks == 2       \* tasks of the schedule the statistics are recomputed on
MaxLifeTasks == 2       \* tasks of the schedule the lifecycle commands act on
MaxProcs == 2           \* CLI / GUI processes running a command at the same time
MaxDaemonProcs == 3     \* processes running `sched daemon` commands

\* ------------------------------------------------------- program constants
DefaultPomodoro == 25
ShortBreak == 5
LongBreak == 15

Titles == {"a", "b"}        \* titles given to Schedule::add_task
StoreTitles == {"a"}        \* titles given to the CLI and GUI commands

VARIABLES
    task,          \* the Task under the lifecycle operations
    now,           \* the clock (Local::now()) of the lifecycle operations
    statuses,      \* every status the task has had so far
    op,            \* the lifecycle operation applied last
    schedule,      \* the Schedule under add_task / remove_task
    nextId,        \* ids are fresh: the next one Task::new hands out
    ret,           \* the last Schedule call: the new task's instants or the id
                   \* to remove, and the result
    history,       \* storage: history/<date>.json, by calendar day
    current,       \* storage: current.json
    today,         \* the calendar day of the clock (storage)
    cmd,           \* the last CLI / GUI command and its result
    out,           \* what the last query returned (accountability, statistics)
    psession,      \* a PomodoroSession used on its own
    streak,        \* the StreakInfo record (streak.json)
    procs,         \* the CLI / GUI / daemon processes running a command: where
                   \* each one is and what it holds in memory
    poll,          \* the daemon's TimeTracker: where its update is and what
                   \* it has loaded
    pid_file,      \* daemon.pid
    daily_stats    \* storage: history/<date>_stats.json, by calendar day

taskVars == <<task, now, statuses, op>>
schedVars == <<schedule, nextId, ret>>
storeVars == <<history, current, today, cmd>>
recordVars == <<psession, streak>>
procVars == <<procs, poll, pid_file, daily_stats>>
vars ==
    <<task, now, statuses, op, schedule, nextId, ret, history, current, today, cmd, out,
      psession, streak,
      procs, poll, pid_file, daily_stats>>

\* no query has returned yet
NoOut == [op |-> "none"]

None == <<>>

\* no process is running and no daemon file exists
NoProcesses == procs = <<>> /\ poll = <<>> /\ pid_file = <<>> /\ daily_stats = <<>>
Some(x) == <<x>>
IsSome(o) == o /= <<>>
Unwrap(o) == o[1]

Max(a, b) == IF a >= b THEN a ELSE b

\* chrono::Duration::num_minutes: whole minutes, truncated toward zero
NumMinutes(d) ==
    IF d >= 0 THEN d \div TicksPerMinute ELSE -((-d) \div TicksPerMinute)

\* ------------------------------------------------------------ models/task.rs
Pending == "Pending"
InProgress == "InProgress"
Completed == "Completed"
Paused == "Paused"
Skipped == "Skipped"
TaskStatus == {Pending, InProgress, Completed, Paused, Skipped}

\* PomodoroSession::new: total_pomodoros is 1 whatever the estimate
PomodoroSessionNew(estimated_minutes) ==
    [total_pomodoros |-> 1,
     completed_pomodoros |-> 0,
     current_start |-> None,
     pomodoro_duration |-> DefaultPomodoro,
     short_break |-> ShortBreak,
     long_break |-> LongBreak]

\* PomodoroSession::start_pomodoro at instant n
StartPomodoro(session, n) == [session EXCEPT !.current_start = Some(n)]

\* PomodoroSession::complete_pomodoro
CompletePomodoro(session) ==
    [session EXCEPT !.completed_pomodoros = @ + 1, !.current_start = None]

\* next_break_duration counting the slices already completed, not the next
NextBreakDurationOfCompleted(s) ==
    IF s.completed_pomodoros % 4 = 0 THEN s.long_break ELSE s.short_break

\* PomodoroSession::next_break_duration
NextBreakDuration(s) ==
    IF (s.completed_pomodoros + 1) % 4 = 0 THEN s.long_break ELSE s.short_break

\* ----------------------------------------------------------- models/stats.rs
\* update with a strict threshold: a rate of exactly 70 breaks the streak
StreakInfoUpdateStrict(s, completion_rate, n) ==
    IF completion_rate.num > 70 * completion_rate.den
    THEN LET current_streak == s.current_streak + 1
         IN  [current_streak |-> current_streak,
              best_streak |-> IF current_streak > s.best_streak
                              THEN current_streak ELSE s.best_streak,
              last_update |-> n]
    ELSE [s EXCEPT !.current_streak = 0, !.last_update = n]

\* reset clearing the best streak as well
StreakInfoResetAll(s, n) ==
    [s EXCEPT !.current_streak = 0, !.best_streak = 0, !.last_update = n]

\* StreakInfo::new at instant n
StreakInfoNew(n) == [current_streak |-> 0, best_streak |-> 0, last_update |-> n]

\* StreakInfo::update at instant n; completion_rate is an f64 percentage, the
\* exact quotient num / den with den > 0
StreakInfoUpdate(s, completion_rate, n) ==
    IF completion_rate.num >= 70 * completion_rate.den
    THEN LET current_streak == s.current_streak + 1
         IN  [current_streak |-> current_streak,
              best_streak |-> IF current_streak > s.best_streak
                              THEN current_streak ELSE s.best_streak,
              last_update |-> n]
    ELSE [s EXCEPT !.current_streak = 0, !.last_update = n]

\* StreakInfo::reset at instant n
StreakInfoReset(s, n) == [s EXCEPT !.current_streak = 0, !.last_update = n]

\* --------------------------------------------- models/task.rs (continued)
\* the quotient truncated (an integer division) instead of rounded up
CeilAsU32Truncated(est, dur) ==
    IF est <= 0 THEN 0 ELSE est \div dur

\* ((est as f64 / dur as f64).ceil() as u32) for dur >= 1: the cast to u32
\* saturates, so a negative quotient becomes 0
CeilAsU32(est, dur) ==
    IF est <= 0 THEN 0 ELSE (est + dur - 1) \div dur

\* Task::new
TaskNew(id, title, start_time, end_time) ==
    [id |-> id,
     title |-> title,
     start_time |-> start_time,
     end_time |-> end_time,
     estimated_duration_minutes |-> NumMinutes(end_time - start_time),
     actual_duration_minutes |-> None,
     status |-> Pending,
     tags |-> <<>>,
     notes |-> None,
     actual_start_time |-> None,
     actual_end_time |-> None,
     custom_pomodoro_duration |-> None,
     pomodoro |-> None]

\* start making a new tracker each time, whether or not the task has one
StartTrackerRecreate(t, n) ==
    LET pomodoro_duration ==
            IF IsSome(t.custom_pomodoro_duration)
            THEN Unwrap(t.custom_pomodoro_duration) ELSE DefaultPomodoro
        session == PomodoroSessionNew(t.estimated_duration_minutes)
    IN  Some(StartPomodoro(
            [session EXCEPT
                !.pomodoro_duration = pomodoro_duration,
                !.total_pomodoros =
                    Max(CeilAsU32(t.estimated_duration_minutes, pomodoro_duration), 1)],
            n))

\* the tracker after Task::start, its clock read at n
StartTracker(t, n) ==
    IF t.pomodoro = None
    THEN LET pomodoro_duration ==
                 IF IsSome(t.custom_pomodoro_duration)
                 THEN Unwrap(t.custom_pomodoro_duration) ELSE DefaultPomodoro
             session == PomodoroSessionNew(t.estimated_duration_minutes)
         IN  Some(StartPomodoro(
                 [session EXCEPT
                     !.pomodoro_duration = pomodoro_duration,
                     !.total_pomodoros =
                         Max(CeilAsU32(t.estimated_duration_minutes, pomodoro_duration), 1)],
                 n))
    ELSE Some(StartPomodoro(Unwrap(t.pomodoro), n))

\* Task::start; n1 and n2 are its two reads of the clock
TaskStart(t, n1, n2) ==
    [t EXCEPT !.status = InProgress,
              !.actual_start_time = Some(n1),
              !.pomodoro = StartTracker(t, n2)]

\* pause without its guard on InProgress
TaskPauseUnguarded(t) ==
    [t EXCEPT !.status = Paused,
              !.pomodoro = IF IsSome(t.pomodoro)
                           THEN Some([Unwrap(t.pomodoro) EXCEPT !.current_start = None])
                           ELSE None]

\* Task::pause
TaskPause(t) ==
    IF t.status = InProgress
    THEN [t EXCEPT !.status = Paused,
                   !.pomodoro = IF IsSome(t.pomodoro)
                                THEN Some([Unwrap(t.pomodoro) EXCEPT !.current_start = None])
                                ELSE None]
    ELSE t

\* resume without its guard on Paused
TaskResumeUnguarded(t, n) ==
    [t EXCEPT !.status = InProgress,
              !.pomodoro = IF IsSome(t.pomodoro)
                           THEN Some(StartPomodoro(Unwrap(t.pomodoro), n))
                           ELSE None]

\* resume written like start: it stamps actual_start_time again
TaskResumeRestart(t, n) ==
    IF t.status = Paused
    THEN [t EXCEPT !.status = InProgress,
                   !.actual_start_time = Some(n),
                   !.pomodoro = IF IsSome(t.pomodoro)
                                THEN Some(StartPomodoro(Unwrap(t.pomodoro), n))
                                ELSE None]
    ELSE t

\* Task::resume at instant n
TaskResume(t, n) ==
    IF t.status = Paused
    THEN [t EXCEPT !.status = InProgress,
                   !.pomodoro = IF IsSome(t.pomodoro)
                                THEN Some(StartPomodoro(Unwrap(t.pomodoro), n))
                                ELSE None]
    ELSE t

\* complete guarded like pause and resume: only a running or paused task
TaskCompleteGuarded(t, n) ==
    IF t.status \in {InProgress, Paused}
    THEN [t EXCEPT !.status = Completed,
                   !.actual_end_time = Some(n),
                   !.actual_duration_minutes =
                       IF IsSome(t.actual_start_time)
                       THEN Some(NumMinutes(n - Unwrap(t.actual_start_time)))
                       ELSE t.actual_duration_minutes]
    ELSE t

\* complete taking now for a missing actual_start_time (unwrap_or)
TaskCompleteDefaultStart(t, n) ==
    [t EXCEPT !.status = Completed,
              !.actual_end_time = Some(n),
              !.actual_duration_minutes =
                  IF IsSome(t.actual_start_time)
                  THEN Some(NumMinutes(n - Unwrap(t.actual_start_time)))
                  ELSE Some(NumMinutes(n - n))]

\* Task::complete at instant n
TaskComplete(t, n) ==
    [t EXCEPT !.status = Completed,
              !.actual_end_time = Some(n),
              !.actual_duration_minutes =
                  IF IsSome(t.actual_start_time)
                  THEN Some(NumMinutes(n - Unwrap(t.actual_start_time)))
                  ELSE t.actual_duration_minutes]

\* skip stopping the running slice as pause does
TaskSkipStopsSlice(t) ==
    [t EXCEPT !.status = Skipped,
              !.pomodoro = IF IsSome(t.pomodoro)
                           THEN Some([Unwrap(t.pomodoro) EXCEPT !.current_start = None])
                           ELSE None]

\* Task::skip
TaskSkip(t) == [t EXCEPT !.status = Skipped]

\* ---------------------------------------------- the lifecycle of one task
\* tasks as Task::new makes them, with the custom slice length the GUI sets
InitialTasks ==
    { [TaskNew(0, "a", s, e) EXCEPT !.custom_pomodoro_duration = c] :
        s \in {0},
        e \in {0, TicksPerMinute + 1, 3 * TicksPerMinute, 50 * TicksPerMinute},
        c \in {None, Some(2)} }

InitSchedule ==
    [date |-> 0, tasks |-> <<>>, changes |-> <<>>,
     completion_rate |-> None, efficiency_score |-> None, total_earned |-> None,
     total_wasted |-> None, total_bonus |-> None, total_penalty |-> None]

InitTask ==
    /\ task \in InitialTasks
    /\ now = 0
    /\ statuses = {Pending}
    /\ op = "new"
    /\ schedule = InitSchedule
    /\ nextId = 1
    /\ ret = [op |-> "new", start |-> 0, end |-> 0, id |-> 0, ok |-> TRUE, err |-> None]
    /\ history = [d \in 1..MaxDay |-> None]
    /\ current = None
    /\ today = 1
    /\ cmd = [op |-> "none", ok |-> TRUE]
    /\ out = NoOut
    /\ psession = PomodoroSessionNew(0)
    /\ streak = StreakInfoNew(0)
    /\ NoProcesses

\* every operation reads the clock, which has moved on since the last one
Apply(name, t, n) ==
    /\ task' = t
    /\ now' = n
    /\ statuses' = statuses \cup {t.status}
    /\ op' = name
    /\ UNCHANGED <<procVars, recordVars, schedVars, storeVars, out>>

Start ==
    \E n1 \in now..MaxNow : \E n2 \in n1..MaxNow :
        Apply("start", TaskStart(task, n1, n2), n2)

Pause == \E n \in now..MaxNow : Apply("pause", TaskPause(task), n)

Resume == \E n \in now..MaxNow : Apply("resume", TaskResume(task, n), n)

Complete == \E n \in now..MaxNow : Apply("complete", TaskComplete(task, n), n)

Skip == \E n \in now..MaxNow : Apply("skip", TaskSkip(task), n)

\* PomodoroSession::complete_pomodoro on the task's tracker: a public method
\* of a public field, callable whatever the task's status
CompletePomodoroStep ==
    /\ IsSome(task.pomodoro)
    /\ Unwrap(task.pomodoro).completed_pomodoros < MaxPomodoros
    /\ \E n \in now..MaxNow :
           Apply("complete_pomodoro",
                 [task EXCEPT !.pomodoro = Some(CompletePomodoro(Unwrap(task.pomodoro)))],
                 n)

NextTask == Start \/ Pause \/ Resume \/ Complete \/ Skip \/ CompletePomodoroStep

SpecTask == InitTask /\ [][NextTask]_vars

\* -------------------------------------------- a PomodoroSession on its own
\* the estimates, in minutes, a session is made for
PomodoroEstimates == {0, 1, 25, 26, 50, 200}

\* PomodoroSession::is_complete
IsComplete(s) == s.completed_pomodoros >= s.total_pomodoros

\* a session as PomodoroSession::new(m) returns it, or as the first
\* Task::start of a task planned for m minutes makes it
InitPomodoro ==
    /\ \E m \in PomodoroEstimates :
          \/ /\ psession = PomodoroSessionNew(m)
             /\ out = [op |-> "new", estimated_minutes |-> m]
          \/ /\ psession = Unwrap(StartTracker(TaskNew(0, "a", 0, m * TicksPerMinute), 0))
             /\ out = [op |-> "task_start", estimated_minutes |-> m]
    /\ streak = StreakInfoNew(0)
    /\ NoProcesses
    /\ task = TaskNew(0, "a", 0, 0)
    /\ now = 0
    /\ statuses = {Pending}
    /\ op = "new"
    /\ schedule = InitSchedule
    /\ nextId = 1
    /\ ret = [op |-> "new", start |-> 0, end |-> 0, id |-> 0, ok |-> TRUE, err |-> None]
    /\ history = [d \in 1..MaxDay |-> None]
    /\ current = None
    /\ today = 1
    /\ cmd = [op |-> "none", ok |-> TRUE]

\* PomodoroSession::start_pomodoro
PomodoroStart ==
    \E n \in now..MaxNow :
        /\ psession' = StartPomodoro(psession, n)
        /\ now' = n
        /\ out' = [op |-> "start_pomodoro"]
        /\ UNCHANGED <<procVars, task, statuses, op, schedVars, storeVars, streak>>

\* cli/commands.rs pomodoro_command, PomodoroAction::Complete, on the
\* tracker: complete_pomodoro, then is_complete and next_break_duration are
\* read; the break is announced unless is_complete
PomodoroCompleteFlow ==
    /\ psession.completed_pomodoros < MaxSlices
    /\ LET pomodoro == CompletePomodoro(psession)
       IN  /\ psession' = pomodoro
           /\ out' = [op |-> "pomodoro_complete",
                      completed |-> pomodoro.completed_pomodoros,
                      is_complete |-> IsComplete(pomodoro),
                      break_duration |-> NextBreakDuration(pomodoro)]
    /\ UNCHANGED <<procVars, taskVars, schedVars, storeVars, streak>>

\* PomodoroSession::next_break_duration
PomodoroNextBreak ==
    /\ out' = [op |-> "next_break_duration", value |-> NextBreakDuration(psession)]
    /\ UNCHANGED <<procVars, taskVars, schedVars, storeVars, recordVars>>

NextPomodoro == PomodoroStart \/ PomodoroCompleteFlow \/ PomodoroNextBreak

SpecPomodoro == InitPomodoro /\ [][NextPomodoro]_vars

\* ------------------------------------------------------ the streak record
\* completion rates given to update: 0, 50, 66.67, 69.9, 70, 70.1, 80, 90, 100
StreakRates ==
    {[num |-> r, den |-> 1] : r \in {0, 50, 70, 80, 90, 100}}
    \cup {[num |-> 200, den |-> 3], [num |-> 699, den |-> 10], [num |-> 701, den |-> 10]}

InitStreak ==
    /\ streak = StreakInfoNew(0)
    /\ NoProcesses
    /\ psession = PomodoroSessionNew(0)
    /\ out = NoOut
    /\ task = TaskNew(0, "a", 0, 0)
    /\ now = 0
    /\ statuses = {Pending}
    /\ op = "new"
    /\ schedule = InitSchedule
    /\ nextId = 1
    /\ ret = [op |-> "new", start |-> 0, end |-> 0, id |-> 0, ok |-> TRUE, err |-> None]
    /\ history = [d \in 1..MaxDay |-> None]
    /\ current = None
    /\ today = 1
    /\ cmd = [op |-> "none", ok |-> TRUE]

\* StreakInfo::update
StreakUpdate ==
    \E completion_rate \in StreakRates : \E n \in now..MaxNow :
        /\ streak.current_streak < MaxStreak
        /\ streak' = StreakInfoUpdate(streak, completion_rate, n)
        /\ now' = n
        /\ out' = [op |-> "update", completion_rate |-> completion_rate]
        /\ UNCHANGED <<procVars, task, statuses, op, schedVars, storeVars, psession>>

\* StreakInfo::reset
StreakReset ==
    \E n \in now..MaxNow :
        /\ streak' = StreakInfoReset(streak, n)
        /\ now' = n
        /\ out' = [op |-> "reset"]
        /\ UNCHANGED <<procVars, task, statuses, op, schedVars, storeVars, psession>>

NextStreak == StreakUpdate \/ StreakReset

SpecStreak == InitStreak /\ [][NextStreak]_vars

\* ---------------------------------------------------- models/schedule.rs
\* has_time_conflict without its third clause (task1 containing task2)
HasTimeConflictNoContain(task1, task2) ==
    \/ (task1.start_time >= task2.start_time /\ task1.start_time < task2.end_time)
    \/ (task1.end_time > task2.start_time /\ task1.end_time <= task2.end_time)

\* has_time_conflict on closed intervals: <= for < and >= for >
HasTimeConflictClosed(task1, task2) ==
    \/ (task1.start_time >= task2.start_time /\ task1.start_time <= task2.end_time)
    \/ (task1.end_time >= task2.start_time /\ task1.end_time <= task2.end_time)
    \/ (task1.start_time <= task2.start_time /\ task1.end_time >= task2.end_time)

\* Schedule::has_time_conflict(task1, task2)
HasTimeConflict(task1, task2) ==
    \/ (task1.start_time >= task2.start_time /\ task1.start_time < task2.end_time)
    \/ (task1.end_time > task2.start_time /\ task1.end_time <= task2.end_time)
    \/ (task1.start_time <= task2.start_time /\ task1.end_time >= task2.end_time)

\* the loop of add_task keeping the last conflict it meets instead of returning
ConflictIndexLast(tasks, t) ==
    IF \E i \in 1..Len(tasks) : HasTimeConflict(t, tasks[i])
    THEN CHOOSE i \in 1..Len(tasks) :
             /\ HasTimeConflict(t, tasks[i])
             /\ \A j \in (i + 1)..Len(tasks) : ~HasTimeConflict(t, tasks[j])
    ELSE 0

\* the index at which the loop of Schedule::add_task returns its error:
\* the first existing task in list order that conflicts (0: the loop ends)
ConflictIndex(tasks, t) ==
    IF \E i \in 1..Len(tasks) : HasTimeConflict(t, tasks[i])
    THEN CHOOSE i \in 1..Len(tasks) :
             /\ HasTimeConflict(t, tasks[i])
             /\ \A j \in 1..(i - 1) : ~HasTimeConflict(t, tasks[j])
    ELSE 0

\* Schedule::add_task: the Result (Err carries the existing task's title)
\* and the schedule afterwards
ScheduleAddTask(s, t) ==
    LET i == ConflictIndex(s.tasks, t)
    IN  IF i /= 0
        THEN [ok |-> FALSE, err |-> Some(s.tasks[i].title), schedule |-> s]
        ELSE [ok |-> TRUE, err |-> None,
              schedule |-> [s EXCEPT !.tasks = Append(s.tasks, t)]]

\* Vec::remove(pos)
RemoveAt(seq, pos) ==
    [i \in 1..(Len(seq) - 1) |-> IF i < pos THEN seq[i] ELSE seq[i + 1]]

\* Schedule::remove_task: the removed task, if any, and the schedule afterwards
ScheduleRemoveTask(s, task_id) ==
    IF \E i \in 1..Len(s.tasks) : s.tasks[i].id = task_id
    THEN LET pos == CHOOSE i \in 1..Len(s.tasks) :
                        /\ s.tasks[i].id = task_id
                        /\ \A j \in 1..(i - 1) : s.tasks[j].id /= task_id
         IN  [removed |-> Some(s.tasks[pos]),
              schedule |-> [s EXCEPT !.tasks = RemoveAt(s.tasks, pos)]]
    ELSE [removed |-> None, schedule |-> s]

\* ------------------------------------- add_task / remove_task on a Schedule
Init ==
    /\ task = TaskNew(0, "a", 0, 0)
    /\ now = 0
    /\ statuses = {Pending}
    /\ op = "new"
    /\ schedule = InitSchedule
    /\ nextId = 1
    /\ ret = [op |-> "new", start |-> 0, end |-> 0, id |-> 0, ok |-> TRUE, err |-> None]
    /\ history = [d \in 1..MaxDay |-> None]
    /\ current = None
    /\ today = 1
    /\ cmd = [op |-> "none", ok |-> TRUE]
    /\ out = NoOut
    /\ psession = PomodoroSessionNew(0)
    /\ streak = StreakInfoNew(0)
    /\ NoProcesses

\* Task::new with any title and any two instants, then Schedule::add_task.
\* Ids are unique: the id of a task that enters the schedule is never reused.
AddTask ==
    \E title \in Titles : \E s \in 0..MaxTime : \E e \in 0..MaxTime :
        LET t == TaskNew(nextId, title, s, e)
            r == ScheduleAddTask(schedule, t)
        IN  /\ r.ok => (nextId <= MaxIds /\ Len(schedule.tasks) < MaxTasks)
            /\ schedule' = r.schedule
            /\ nextId' = IF r.ok THEN nextId + 1 ELSE nextId
            /\ ret' = [op |-> "add_task", start |-> s, end |-> e, id |-> 0,
                       ok |-> r.ok, err |-> r.err]
            /\ UNCHANGED <<procVars, recordVars, taskVars, storeVars, out>>

\* Schedule::remove_task with the id of a present or an absent task
RemoveTask ==
    \E task_id \in 1..MaxIds :
        LET r == ScheduleRemoveTask(schedule, task_id)
        IN  /\ schedule' = r.schedule
            /\ ret' = [op |-> "remove_task", start |-> 0, end |-> 0, id |-> task_id,
                       ok |-> IsSome(r.removed), err |-> None]
            /\ UNCHANGED <<procVars, recordVars, nextId, taskVars, storeVars, out>>

Next == AddTask \/ RemoveTask

Spec == Init /\ [][Next]_vars

\* Schedule::sort_by_time: Vec::sort_by_key is stable
RECURSIVE SortByTime(_)
SortByTime(tasks) ==
    IF Len(tasks) <= 1 THEN tasks
    ELSE LET sorted == SortByTime(SubSeq(tasks, 1, Len(tasks) - 1))
             t == tasks[Len(tasks)]
             k == Cardinality({i \in 1..Len(sorted) :
                                  sorted[i].start_time <= t.start_time})
         IN  SubSeq(sorted, 1, k) \o <<t>> \o SubSeq(sorted, k + 1, Len(sorted))

\* ------------------------------------------------ storage/json_storage.rs
TicksPerDay == MinutesPerDay * TicksPerMinute

\* DateTime::date_naive: the calendar day of an instant
DateNaive(dt) == dt \div TicksPerDay

\* NaiveDate::and_hms_opt(0, 0, 0): midnight of a calendar day
Midnight(day) == day * TicksPerDay

\* parse_time_on_date / today.and_time(parse_time(..)): HH:MM on a day
TimeOnDate(day, hhmm) == day * TicksPerDay + hhmm * TicksPerMinute

\* Schedule::new
ScheduleNew(date) ==
    [date |-> date, tasks |-> <<>>, changes |-> <<>>,
     completion_rate |-> None, efficiency_score |-> None, total_earned |-> None,
     total_wasted |-> None, total_bonus |-> None, total_penalty |-> None]

\* JsonStorage::load_schedule
LoadSchedule(date) == history[DateNaive(date)]

\* JsonStorage::load_today without the date check on current.json
LoadTodayUnchecked == current

\* JsonStorage::load_today
LoadToday ==
    IF current = None THEN None
    ELSE IF DateNaive(Unwrap(current).date) /= today THEN None
    ELSE current

\* JsonStorage::save_schedule
SaveSchedule(s) ==
    /\ history' = [history EXCEPT ![DateNaive(s.date)] = Some(s)]
    /\ current' = IF DateNaive(s.date) = today THEN Some(s) ELSE current

\* TaskInput of the GUI: title, start_time and end_time as HH:MM
TaskInputs ==
    [title : StoreTitles, start_time : 0..(MinutesPerDay - 1),
     end_time : 0..(MinutesPerDay - 1)]

\* the Task the GUI builds from a TaskInput on a day
TaskOfInput(id, day, input) ==
    TaskNew(id, input.title, TimeOnDate(day, input.start_time),
            TimeOnDate(day, input.end_time))

\* ------------------------------------------------- models/accountability.rs
\* i64::saturating_sub: a - b clamped to the i64 range (not to 0); minutes
\* stay far inside that range, so the clamp never acts
SaturatingSub(a, b) == a - b

\* from_task counting an unfinished task's estimate as wasted, as a skipped one
FromTaskUnfinishedWasted(t) ==
    LET estimated == t.estimated_duration_minutes
    IN  IF t.status = Completed
        THEN IF IsSome(t.actual_duration_minutes)
             THEN LET actual == Unwrap(t.actual_duration_minutes)
                  IN  IF actual <= estimated
                      THEN [earned_time |-> estimated, wasted_time |-> 0,
                            bonus_time |-> estimated - actual, penalty_time |-> 0]
                      ELSE [earned_time |-> SaturatingSub(estimated, actual - estimated),
                            wasted_time |-> 0, bonus_time |-> 0,
                            penalty_time |-> actual - estimated]
             ELSE [earned_time |-> estimated, wasted_time |-> 0,
                   bonus_time |-> 0, penalty_time |-> 0]
        ELSE [earned_time |-> 0, wasted_time |-> estimated,
              bonus_time |-> 0, penalty_time |-> 0]

\* TimeAccountability::from_task
FromTask(t) ==
    LET estimated == t.estimated_duration_minutes
    IN  IF t.status = Completed
        THEN IF IsSome(t.actual_duration_minutes)
             THEN LET actual == Unwrap(t.actual_duration_minutes)
                  IN  IF actual <= estimated
                      THEN LET bonus == estimated - actual
                           IN  [earned_time |-> estimated, wasted_time |-> 0,
                                bonus_time |-> bonus, penalty_time |-> 0]
                      ELSE LET penalty == actual - estimated
                           IN  [earned_time |-> SaturatingSub(estimated, penalty),
                                wasted_time |-> 0, bonus_time |-> 0,
                                penalty_time |-> penalty]
             ELSE [earned_time |-> estimated, wasted_time |-> 0,
                   bonus_time |-> 0, penalty_time |-> 0]
        ELSE IF t.status = Skipped
        THEN [earned_time |-> 0, wasted_time |-> estimated,
              bonus_time |-> 0, penalty_time |-> 0]
        ELSE [earned_time |-> 0, wasted_time |-> 0,
              bonus_time |-> 0, penalty_time |-> 0]

\* DailyAccountability::new
DailyNew(date) ==
    [date |-> date, total_planned |-> 0, total_earned |-> 0, total_wasted |-> 0,
     total_bonus |-> 0, total_penalty |-> 0]

\* DailyAccountability::from_tasks: the loop over the tasks, in order
RECURSIVE DailyFromTasks(_, _)
DailyFromTasks(date, tasks) ==
    IF tasks = <<>> THEN DailyNew(date)
    ELSE LET accountability == DailyFromTasks(date, SubSeq(tasks, 1, Len(tasks) - 1))
             t == tasks[Len(tasks)]
             perf == FromTask(t)
         IN  [accountability EXCEPT
                 !.total_planned = @ + t.estimated_duration_minutes,
                 !.total_earned = @ + perf.earned_time,
                 !.total_wasted = @ + perf.wasted_time,
                 !.total_bonus = @ + perf.bonus_time,
                 !.total_penalty = @ + perf.penalty_time]

\* An f64 percentage is the exact quotient num / den with den > 0.  For the
\* integers of this model the f64 value of (n as f64 / d as f64) * 100.0
\* compares with 60, 70, 80, 90, 95 and 100 as the exact quotient does.
Percent(n, d) ==
    IF d > 0 THEN [num |-> n * 100, den |-> d] ELSE [num |-> -(n * 100), den |-> -d]

ZeroPercent == [num |-> 0, den |-> 1]

\* score >= th, for an f64 percentage and a whole threshold
AtLeast(score, th) == score.num >= th * score.den

\* the day's score from the earned total alone, as Schedule::efficiency_score
\* takes it, without the bonus and penalty terms
EfficiencyScoreEarnedOnly(acc) ==
    IF acc.total_planned = 0 THEN ZeroPercent
    ELSE Percent(acc.total_earned, acc.total_planned)

\* DailyAccountability::efficiency_score
EfficiencyScore(acc) ==
    IF acc.total_planned = 0 THEN ZeroPercent
    ELSE LET net_earned == acc.total_earned + acc.total_bonus - acc.total_penalty
         IN  Percent(net_earned, acc.total_planned)

\* DailyAccountability::grade
Grade(acc) ==
    LET score == EfficiencyScore(acc)
    IN  IF AtLeast(score, 95) THEN "A+"
        ELSE IF AtLeast(score, 90) THEN "A"
        ELSE IF AtLeast(score, 80) THEN "B"
        ELSE IF AtLeast(score, 70) THEN "C"
        ELSE IF AtLeast(score, 60) THEN "D"
        ELSE "F"

\* ------------------------------------------ models/schedule.rs: statistics
\* Iterator::sum of a sequence of i64
RECURSIVE SumSeq(_)
SumSeq(xs) ==
    IF xs = <<>> THEN 0 ELSE SumSeq(SubSeq(xs, 1, Len(xs) - 1)) + xs[Len(xs)]

\* Schedule::completion_rate
ScheduleCompletionRate(s) ==
    IF s.tasks = <<>> THEN ZeroPercent
    ELSE LET completed == Cardinality({i \in DOMAIN s.tasks :
                                          s.tasks[i].status = Completed})
         IN  Percent(completed, Len(s.tasks))

\* Schedule::total_earned
ScheduleTotalEarned(s) ==
    SumSeq([i \in DOMAIN s.tasks |->
               LET t == s.tasks[i]
                   estimated == t.estimated_duration_minutes
                   actual == IF IsSome(t.actual_duration_minutes)
                             THEN Unwrap(t.actual_duration_minutes) ELSE estimated
               IN  IF t.status /= Completed THEN 0
                   ELSE IF actual <= estimated THEN estimated
                   ELSE Max(estimated - (actual - estimated), 0)])

\* total_wasted counting a task from the instant of its end_time on
ScheduleTotalWastedInclusive(s, n) ==
    SumSeq([i \in DOMAIN s.tasks |->
               LET t == s.tasks[i]
               IN  IF t.status /= Completed /\ t.end_time <= n
                   THEN t.estimated_duration_minutes
                   ELSE 0])

\* Schedule::total_wasted, its Local::now() reading n
ScheduleTotalWasted(s, n) ==
    SumSeq([i \in DOMAIN s.tasks |->
               LET t == s.tasks[i]
               IN  IF t.status /= Completed /\ t.end_time < n
                   THEN (IF t.status = Skipped
                         THEN t.estimated_duration_minutes
                         ELSE t.estimated_duration_minutes)
                   ELSE 0])

\* Schedule::total_bonus
ScheduleTotalBonus(s) ==
    SumSeq([i \in DOMAIN s.tasks |->
               LET t == s.tasks[i]
                   estimated == t.estimated_duration_minutes
               IN  IF t.status = Completed /\ IsSome(t.actual_duration_minutes)
                      /\ Unwrap(t.actual_duration_minutes) < estimated
                   THEN estimated - Unwrap(t.actual_duration_minutes)
                   ELSE 0])

\* Schedule::total_penalty
ScheduleTotalPenalty(s) ==
    SumSeq([i \in DOMAIN s.tasks |->
               LET t == s.tasks[i]
                   estimated == t.estimated_duration_minutes
               IN  IF t.status = Completed /\ IsSome(t.actual_duration_minutes)
                      /\ Unwrap(t.actual_duration_minutes) > estimated
                   THEN Unwrap(t.actual_duration_minutes) - estimated
                   ELSE 0])

\* Schedule::efficiency_score: earned / planned * 100, at most 100
ScheduleEfficiencyScore(s) ==
    LET total_planned ==
            SumSeq([i \in DOMAIN s.tasks |-> s.tasks[i].estimated_duration_minutes])
    IN  IF total_planned = 0 THEN ZeroPercent
        ELSE LET score == Percent(ScheduleTotalEarned(s), total_planned)
             IN  IF AtLeast(score, 100) THEN [num |-> 100, den |-> 1] ELSE score

\* calculate_stats caching the wasted time as well, read at instant n
CalculateStatsWithWasted(s, n) ==
    [s EXCEPT !.completion_rate = Some(ScheduleCompletionRate(s)),
              !.efficiency_score = Some(ScheduleEfficiencyScore(s)),
              !.total_earned = Some(ScheduleTotalEarned(s)),
              !.total_wasted = Some(ScheduleTotalWasted(s, n)),
              !.total_bonus = Some(ScheduleTotalBonus(s)),
              !.total_penalty = Some(ScheduleTotalPenalty(s))]

\* calculate_stats counting the tasks whose end_time is before the clock n
CalculateStatsOfPast(s, n) ==
    LET past == [s EXCEPT !.tasks = SelectSeq(@, LAMBDA t : t.end_time < n)]
    IN  [s EXCEPT !.completion_rate = Some(ScheduleCompletionRate(past)),
                  !.efficiency_score = Some(ScheduleEfficiencyScore(past)),
                  !.total_earned = Some(ScheduleTotalEarned(past)),
                  !.total_bonus = Some(ScheduleTotalBonus(past)),
                  !.total_penalty = Some(ScheduleTotalPenalty(past))]

\* Schedule::calculate_stats; n is the clock, which it does not read
CalculateStats(s, n) ==
    [s EXCEPT !.completion_rate = Some(ScheduleCompletionRate(s)),
              !.efficiency_score = Some(ScheduleEfficiencyScore(s)),
              !.total_earned = Some(ScheduleTotalEarned(s)),
              !.total_bonus = Some(ScheduleTotalBonus(s)),
              !.total_penalty = Some(ScheduleTotalPenalty(s))]

\* ----------------------------------- commands on the stored schedules
InitStore ==
    /\ task = TaskNew(0, "a", 0, 0)
    /\ now = 0
    /\ statuses = {Pending}
    /\ op = "new"
    /\ schedule = InitSchedule
    /\ nextId = 1
    /\ ret = [op |-> "new", start |-> 0, end |-> 0, id |-> 0, ok |-> TRUE, err |-> None]
    /\ history = [d \in 1..MaxDay |-> None]
    /\ current = None
    /\ today = 1
    /\ cmd = [op |-> "none", ok |-> TRUE]
    /\ out = NoOut
    /\ psession = PomodoroSessionNew(0)
    /\ streak = StreakInfoNew(0)
    /\ NoProcesses

\* cli/commands.rs add_task: `sched add <title> <start> <end>`, the clock
\* reading tod ticks after midnight when Schedule::today() is called
CliAdd ==
    \E title \in StoreTitles : \E start \in 0..(MinutesPerDay - 1) :
    \E end \in 0..(MinutesPerDay - 1) : \E tod \in {0, 1} :
        LET start_datetime == TimeOnDate(today, start)
            end_datetime == TimeOnDate(today, end)
            t == TaskNew(nextId, title, start_datetime, end_datetime)
            loaded == IF IsSome(LoadToday) THEN Unwrap(LoadToday)
                      ELSE ScheduleNew(Midnight(today) + tod)
            r == ScheduleAddTask(loaded, t)
        IN  /\ (end_datetime > start_datetime /\ r.ok) =>
                   (nextId <= MaxStoreIds /\ Len(loaded.tasks) < MaxStored)
            /\ IF end_datetime <= start_datetime \/ ~r.ok
               THEN /\ cmd' = [op |-> "cli_add", ok |-> FALSE]
                    /\ UNCHANGED <<history, current, nextId>>
               ELSE /\ SaveSchedule([r.schedule EXCEPT !.tasks = SortByTime(@)])
                    /\ nextId' = nextId + 1
                    /\ cmd' = [op |-> "cli_add", ok |-> TRUE]
            /\ out' = NoOut
            /\ UNCHANGED <<procVars, recordVars, today, taskVars, schedule, ret>>

\* src-tauri/src/main.rs add_task(date, task_input)
GuiAddTask ==
    \E day \in 1..MaxDay : \E input \in TaskInputs :
        LET datetime == Midnight(day)
            loaded == IF IsSome(LoadSchedule(datetime))
                      THEN Unwrap(LoadSchedule(datetime))
                      ELSE ScheduleNew(datetime)
            t == TaskOfInput(nextId, day, input)
        IN  /\ nextId <= MaxStoreIds
            /\ Len(loaded.tasks) < MaxStored
            /\ SaveSchedule([loaded EXCEPT !.tasks = Append(@, t)])
            /\ nextId' = nextId + 1
            /\ cmd' = [op |-> "gui_add_task", ok |-> TRUE]
            /\ out' = NoOut
            /\ UNCHANGED <<procVars, recordVars, today, taskVars, schedule, ret>>

\* src-tauri/src/main.rs create_schedule(date, tasks)
GuiCreateSchedule ==
    \E day \in 1..MaxDay : \E n \in 0..MaxStored :
        /\ nextId + n - 1 <= MaxStoreIds
        /\ \E inputs \in [1..n -> TaskInputs] :
              LET new == [ScheduleNew(Midnight(day)) EXCEPT
                             !.tasks = [i \in 1..n |->
                                           TaskOfInput(nextId + i - 1, day, inputs[i])]]
              IN  /\ SaveSchedule(new)
                  /\ nextId' = nextId + n
                  /\ cmd' = [op |-> "gui_create_schedule", ok |-> TRUE]
                  /\ out' = NoOut
            /\ UNCHANGED <<procVars, recordVars, today, taskVars, schedule, ret>>

\* midnight passes
NextDay ==
    /\ today < MaxDay
    /\ today' = today + 1
    /\ cmd' = [op |-> "none", ok |-> TRUE]
    /\ out' = NoOut
    /\ UNCHANGED <<procVars, recordVars, history, current, nextId, taskVars, schedule, ret>>

\* the instants the clock shows when a command runs on the current day
StoreClock == {Midnight(today), Midnight(today) + TicksPerDay - 1}

\* src-tauri/src/main.rs complete_task(date, index, _focus_score), called
\* as the current day begins
GuiCompleteTask ==
    \E day \in 1..MaxDay : \E index \in 0..(MaxStored - 1) : \E n \in {Midnight(today)} :
        LET loaded == LoadSchedule(Midnight(day))
        IN  /\ IF loaded = None \/ index >= Len(Unwrap(loaded).tasks)
               THEN /\ cmd' = [op |-> "gui_complete_task", ok |-> FALSE]
                    /\ UNCHANGED <<history, current>>
               ELSE /\ SaveSchedule([Unwrap(loaded) EXCEPT
                                        !.tasks[index + 1] = TaskComplete(@, n)])
                    /\ cmd' = [op |-> "gui_complete_task", ok |-> TRUE]
            /\ out' = NoOut
            /\ UNCHANGED <<procVars, recordVars, nextId, today, taskVars, schedule, ret>>

\* what get_schedule and get_today_schedule do with the schedule they
\* loaded: calculate_stats, then total_wasted = Some(total_wasted()) at n
Answer(name, loaded, n) ==
    IF loaded = None
    THEN [op |-> name, loaded |-> None, stats |-> None, returned |-> None]
    ELSE LET stats == CalculateStats(Unwrap(loaded), n)
         IN  [op |-> name, loaded |-> loaded, stats |-> Some(stats),
              returned |-> Some([stats EXCEPT
                                   !.total_wasted = Some(ScheduleTotalWasted(stats, n))])]

\* src-tauri/src/main.rs get_schedule(date)
GuiGetSchedule ==
    \E day \in 1..MaxDay : \E n \in StoreClock :
        /\ out' = Answer("get_schedule", LoadSchedule(Midnight(day)), n)
        /\ cmd' = [op |-> "gui_get_schedule", ok |-> TRUE]
        /\ UNCHANGED <<procVars, recordVars, history, current, nextId, today, taskVars, schedule, ret>>

\* src-tauri/src/main.rs get_today_schedule()
GuiGetTodaySchedule ==
    \E n \in StoreClock :
        /\ out' = Answer("get_today_schedule", LoadToday, n)
        /\ cmd' = [op |-> "gui_get_today_schedule", ok |-> TRUE]
        /\ UNCHANGED <<procVars, recordVars, history, current, nextId, today, taskVars, schedule, ret>>

NextStore == CliAdd \/ GuiAddTask \/ GuiCreateSchedule \/ NextDay

\* the commands that load a stored schedule and answer with its statistics,
\* on schedules made by `sched add` and the GUI's complete_task
NextStats ==
    \/ CliAdd \/ NextDay
    \/ GuiCompleteTask \/ GuiGetSchedule \/ GuiGetTodaySchedule

SpecStats == InitStore /\ [][NextStats]_vars

SpecStore == InitStore /\ [][NextStore]_vars

\* ------------------------------------- accountability of a day's tasks
\* how a task of the day came to its state: by the lifecycle operations, every
\* one at or after instant 0; a Completed task ran for `actual` minutes
AcctKinds ==
    [end : {TicksPerMinute + 1}, how : {"new", "started", "paused", "skipped", "completed"},
     actual : {0}]
    \cup [end : {TicksPerMinute + 1}, how : {"ran"}, actual : 0..3]
    \cup [end : {20 * TicksPerMinute},
          how : {"new", "started", "paused", "skipped", "completed"}, actual : {0}]
    \cup [end : {20 * TicksPerMinute}, how : {"ran"}, actual : 19..25]

TaskOfKind(id, k) ==
    LET new == TaskNew(id, "a", 0, k.end)
        started == TaskStart(new, 0, 0)
    IN  CASE k.how = "new" -> new
          [] k.how = "started" -> started
          [] k.how = "paused" -> TaskPause(started)
          [] k.how = "skipped" -> TaskSkip(new)
          [] k.how = "completed" -> TaskComplete(new, 0)
          [] k.how = "ran" -> TaskComplete(started, k.actual * TicksPerMinute)

\* the clock when the day is accounted for: every task's events are past
AcctNow == 25 * TicksPerMinute

InitAcct ==
    /\ schedule \in
           { [ScheduleNew(0) EXCEPT !.tasks = [i \in DOMAIN kinds |-> TaskOfKind(i, kinds[i])]] :
                 kinds \in UNION { [1..n -> AcctKinds] : n \in 0..MaxAcctTasks } }
    /\ now = AcctNow
    /\ out = NoOut
    /\ psession = PomodoroSessionNew(0)
    /\ streak = StreakInfoNew(0)
    /\ NoProcesses
    /\ task = TaskNew(0, "a", 0, 0)
    /\ statuses = {Pending}
    /\ op = "new"
    /\ nextId = 1
    /\ ret = [op |-> "new", start |-> 0, end |-> 0, id |-> 0, ok |-> TRUE, err |-> None]
    /\ history = [d \in 1..MaxDay |-> None]
    /\ current = None
    /\ today = 1
    /\ cmd = [op |-> "none", ok |-> TRUE]

\* TimeAccountability::from_task on one task of the day
FromTaskStep ==
    \E i \in 1..Len(schedule.tasks) :
        /\ out' = [op |-> "from_task", task |-> schedule.tasks[i],
                   perf |-> FromTask(schedule.tasks[i])]
        /\ UNCHANGED <<procVars, recordVars, taskVars, schedVars, storeVars>>

\* DailyAccountability::from_tasks on the day, then its score and its grade
FromTasksStep ==
    LET daily == DailyFromTasks(schedule.date, schedule.tasks)
    IN  /\ out' = [op |-> "from_tasks", daily |-> daily,
                   score |-> EfficiencyScore(daily), grade |-> Grade(daily)]
        /\ UNCHANGED <<procVars, recordVars, taskVars, schedVars, storeVars>>

NextAcct == FromTaskStep \/ FromTasksStep

SpecAcct == InitAcct /\ [][NextAcct]_vars

\* ------------------------------------------- wasted time of a day's tasks
\* the tasks of the day, planned from instant 0 and brought to their status
\* at instant 0
WastedKinds ==
    [end : {TicksPerMinute, 2 * TicksPerMinute},
     how : {"new", "started", "paused", "skipped"}, actual : {0}]

InitWasted ==
    /\ schedule \in
           { [ScheduleNew(0) EXCEPT
                 !.tasks = [i \in DOMAIN kinds |-> TaskOfKind(i, kinds[i])]] :
                 kinds \in UNION { [1..n -> WastedKinds] : n \in 0..MaxWastedTasks } }
    /\ now = 0
    /\ out = NoOut
    /\ psession = PomodoroSessionNew(0)
    /\ streak = StreakInfoNew(0)
    /\ NoProcesses
    /\ task = TaskNew(0, "a", 0, 0)
    /\ statuses = {Pending}
    /\ op = "new"
    /\ nextId = 1
    /\ ret = [op |-> "new", start |-> 0, end |-> 0, id |-> 0, ok |-> TRUE, err |-> None]
    /\ history = [d \in 1..MaxDay |-> None]
    /\ current = None
    /\ today = 1
    /\ cmd = [op |-> "none", ok |-> TRUE]

\* Schedule::total_wasted
TotalWastedStep ==
    \E n \in now..MaxNow :
        /\ now' = n
        /\ out' = [op |-> "total_wasted", value |-> ScheduleTotalWasted(schedule, n)]
        /\ UNCHANGED <<procVars, recordVars, task, statuses, op, schedVars, storeVars>>

\* Task::complete on a task of the day
CompleteTaskStep ==
    \E i \in DOMAIN schedule.tasks :
        \E n \in now..MaxNow :
            /\ now' = n
            /\ schedule' = [schedule EXCEPT !.tasks[i] = TaskComplete(@, n)]
            /\ out' = [op |-> "complete", value |-> i]
            /\ UNCHANGED <<procVars, recordVars, task, statuses, op, nextId, ret, storeVars>>

NextWasted == TotalWastedStep \/ CompleteTaskStep

SpecWasted == InitWasted /\ [][NextWasted]_vars

\* ------------------------------------------------------------- properties
\* the half-open intervals [a.start, a.end) and [b.start, b.end) overlap
Overlap(a, b) == a.start_time < b.end_time /\ b.start_time < a.end_time

Proper(t) == t.end_time > t.start_time

\* C1: after any sequence of add_task and remove_task calls on an empty
\* Schedule, no two distinct tasks of the schedule overlap.
NoOverlap ==
    \A i \in 1..Len(schedule.tasks) : \A j \in 1..Len(schedule.tasks) :
        i /= j => ~Overlap(schedule.tasks[i], schedule.tasks[j])

\* a rejected add_task on a schedule that holds two tasks
NoOverlapWitness ==
    /\ Len(schedule.tasks) = 2
    /\ ret.op = "add_task"
    /\ ~ret.ok

\* the planned interval of the task given to the last add_task
Given(r) == [start_time |-> r.start, end_time |-> r.end]

\* C2: add_task rejects the new task exactly when it overlaps, as half-open
\* intervals, some task of the schedule; with one existing task the pair
\* conflicts iff s1 < e2 and s2 < e1, zero-length tasks included.
ConflictIffOverlap ==
    [][ret'.op = "add_task" =>
          (~ret'.ok <=> \E i \in 1..Len(schedule.tasks) :
                            Overlap(Given(ret'), schedule.tasks[i]))]_vars

\* C3: a task with end > start that abuts the only task of the schedule
\* (A.start = B.end or A.end = B.start, B.end > B.start) is accepted and the
\* schedule then holds both.
AbuttingAccepted ==
    [][(/\ ret'.op = "add_task"
        /\ Len(schedule.tasks) = 1
        /\ Proper(Given(ret'))
        /\ Proper(schedule.tasks[1])
        /\ \/ ret'.start = schedule.tasks[1].end_time
           \/ ret'.end = schedule.tasks[1].start_time)
       => (/\ ret'.ok
           /\ Len(schedule'.tasks) = 2
           /\ schedule'.tasks[1] = schedule.tasks[1]
           /\ schedule'.tasks[2].start_time = ret'.start
           /\ schedule'.tasks[2].end_time = ret'.end)]_vars

\* the task added last starts where the only other task ends
AbuttingWitness ==
    /\ ret.op = "add_task"
    /\ ret.ok
    /\ Len(schedule.tasks) = 2
    /\ schedule.tasks[2].start_time = ret.start
    /\ schedule.tasks[2].end_time = ret.end
    /\ Proper(schedule.tasks[1])
    /\ Proper(schedule.tasks[2])
    /\ schedule.tasks[2].start_time = schedule.tasks[1].end_time

\* C4: a rejected add_task names the title of the lowest-index existing task
\* that add_task finds in conflict with the new one, and leaves the task list
\* and the change log as they were.
RejectNamesFirst ==
    [][(ret'.op = "add_task" /\ ~ret'.ok) =>
          (/\ schedule'.tasks = schedule.tasks
           /\ schedule'.changes = schedule.changes
           /\ \E i \in 1..Len(schedule.tasks) :
                 /\ HasTimeConflict(Given(ret'), schedule.tasks[i])
                 /\ \A j \in 1..(i - 1) :
                        ~HasTimeConflict(Given(ret'), schedule.tasks[j])
                 /\ ret'.err = Some(schedule.tasks[i].title))]_vars

\* a rejected task conflicts with both tasks of the schedule, whose titles
\* differ, and the error names the first
RejectNamesFirstWitness ==
    /\ ret.op = "add_task"
    /\ ~ret.ok
    /\ Len(schedule.tasks) = 2
    /\ HasTimeConflict(Given(ret), schedule.tasks[1])
    /\ HasTimeConflict(Given(ret), schedule.tasks[2])
    /\ schedule.tasks[1].title /= schedule.tasks[2].title
    /\ ret.err = Some(schedule.tasks[1].title)

\* C6: start on an InProgress, Completed or Skipped task changes no field.
StartOnlyFromPendingOrPaused ==
    [][(op' = "start" /\ task.status \in {InProgress, Completed, Skipped})
          => task' = task]_vars

\* C7: once set, actual_start_time is never changed by a later operation.
ActualStartSetOnce ==
    [][IsSome(task.actual_start_time)
          => task'.actual_start_time = task.actual_start_time]_vars

\* C8: from every status complete sets status to Completed and
\* actual_end_time to now; actual_duration_minutes becomes the whole minutes
\* between actual_start_time and now when the task was started, and stays
\* absent when it never was.
CompleteSetsFields ==
    [][op' = "complete" =>
          (/\ task'.status = Completed
           /\ task'.actual_end_time = Some(now')
           /\ IF IsSome(task.actual_start_time)
              THEN /\ IsSome(task'.actual_duration_minutes)
                   /\ LET d == Unwrap(task'.actual_duration_minutes)
                          elapsed == now' - Unwrap(task.actual_start_time)
                      IN  /\ d * TicksPerMinute <= elapsed
                          /\ elapsed < (d + 1) * TicksPerMinute
              ELSE task'.actual_duration_minutes = None)]_vars

\* a started task completed after a time that is not a whole number of minutes
CompleteWitness ==
    /\ op = "complete"
    /\ IsSome(task.actual_start_time)
    /\ IsSome(task.actual_duration_minutes)
    /\ (now - Unwrap(task.actual_start_time)) % TicksPerMinute /= 0
    /\ Unwrap(task.actual_duration_minutes) >= 1

\* C9 as stated: actual_duration_minutes is present iff status = Completed.
DurationIffCompleted ==
    IsSome(task.actual_duration_minutes) <=> task.status = Completed

\* C9 amended: actual_duration_minutes is present only if actual_start_time
\* and actual_end_time are, and a Completed task has it iff it has an
\* actual_start_time.
DurationOnlyOfStartedCompletion ==
    /\ IsSome(task.actual_duration_minutes) =>
           (IsSome(task.actual_start_time) /\ IsSome(task.actual_end_time))
    /\ task.status = Completed =>
           (IsSome(task.actual_duration_minutes) <=> IsSome(task.actual_start_time))

\* a task completed without ever having been started
DurationWitness ==
    /\ op = "complete"
    /\ task.status = Completed
    /\ task.actual_start_time = None
    /\ task.actual_duration_minutes = None

\* C10: actual_start_time is present iff the status has been InProgress at
\* some point.
ActualStartIffEverInProgress ==
    IsSome(task.actual_start_time) <=> InProgress \in statuses

\* a started task that was paused and resumed
ActualStartWitness ==
    /\ op = "resume"
    /\ task.status = InProgress
    /\ Paused \in statuses
    /\ IsSome(task.actual_start_time)

\* C5: no stored schedule produced by the insert commands (CLI add, GUI
\* add_task, GUI create_schedule) holds two overlapping tasks.
StoredNoOverlap ==
    \A d \in 1..MaxDay :
        IsSome(history[d]) =>
            \A i \in 1..Len(Unwrap(history[d]).tasks) :
            \A j \in 1..Len(Unwrap(history[d]).tasks) :
                i /= j => ~Overlap(Unwrap(history[d]).tasks[i],
                                   Unwrap(history[d]).tasks[j])

\* the fields pause, resume and the tracker operations must leave alone
SamePlan(t1, t2) ==
    /\ t1.start_time = t2.start_time
    /\ t1.end_time = t2.end_time
    /\ t1.estimated_duration_minutes = t2.estimated_duration_minutes

SameSliceCounts(t1, t2) ==
    /\ IsSome(t1.pomodoro) /\ IsSome(t2.pomodoro)
    /\ Unwrap(t1.pomodoro).completed_pomodoros = Unwrap(t2.pomodoro).completed_pomodoros
    /\ Unwrap(t1.pomodoro).total_pomodoros = Unwrap(t2.pomodoro).total_pomodoros

\* C11: pause on an InProgress task sets the status to Paused and clears the
\* tracker's current_start, leaving completed_pomodoros, total_pomodoros,
\* actual_start_time and the planned fields as they were; pause on a task in
\* any other status changes no field.
PauseEffect ==
    [][op' = "pause" =>
          IF task.status = InProgress
          THEN /\ task'.status = Paused
               /\ SameSliceCounts(task, task')
               /\ Unwrap(task'.pomodoro).current_start = None
               /\ task'.actual_start_time = task.actual_start_time
               /\ SamePlan(task, task')
          ELSE task' = task]_vars

PauseWitness ==
    /\ op = "pause"
    /\ task.status = Paused
    /\ IsSome(task.actual_start_time)
    /\ IsSome(task.pomodoro)
    /\ Unwrap(task.pomodoro).completed_pomodoros >= 1
    /\ Unwrap(task.pomodoro).current_start = None

\* C12: resume on a Paused task sets the status to InProgress and the
\* tracker's current_start to now, leaving actual_start_time,
\* completed_pomodoros and total_pomodoros as they were; resume on a task in
\* any other status changes nothing.
ResumeEffect ==
    [][op' = "resume" =>
          IF task.status = Paused
          THEN /\ task'.status = InProgress
               /\ SameSliceCounts(task, task')
               /\ Unwrap(task'.pomodoro).current_start = Some(now')
               /\ task'.actual_start_time = task.actual_start_time
          ELSE task' = task]_vars

ResumeWitness ==
    /\ op = "resume"
    /\ task.status = InProgress
    /\ IsSome(task.pomodoro)
    /\ Unwrap(task.pomodoro).current_start = Some(now)
    /\ Unwrap(task.pomodoro).completed_pomodoros >= 1
    /\ IsSome(task.actual_start_time)
    /\ Unwrap(task.actual_start_time) < now

\* C13: skip sets the status to Skipped from every status and leaves
\* actual_start_time, actual_end_time, actual_duration_minutes, the planned
\* start and end, the estimate and the pomodoro tracker as they were.
SkipEffect ==
    [][op' = "skip" =>
          /\ task'.status = Skipped
          /\ task'.actual_start_time = task.actual_start_time
          /\ task'.actual_end_time = task.actual_end_time
          /\ task'.actual_duration_minutes = task.actual_duration_minutes
          /\ SamePlan(task, task')
          /\ task'.pomodoro = task.pomodoro]_vars

SkipWitness ==
    /\ op = "skip"
    /\ task.status = Skipped
    /\ IsSome(task.actual_start_time)
    /\ IsSome(task.pomodoro)
    /\ IsSome(Unwrap(task.pomodoro).current_start)

\* the slice length Task::start uses: the custom one, else 25
SliceLength(t) ==
    IF IsSome(t.custom_pomodoro_duration)
    THEN Unwrap(t.custom_pomodoro_duration) ELSE 25

\* C19: the first start of a task creates its tracker with total_pomodoros
\* = max(1, ceil(estimate / L)), L the custom slice length or 25, for every
\* estimate >= 0 and L >= 1 (50 minutes at 25 give 2, 1 minute at 25 gives
\* 1), with completed_pomodoros = 0, pomodoro_duration = L and
\* current_start = now.  total is the least k >= 1 with k * L >= estimate.
FirstStartCreatesTracker ==
    [][(op' = "start" /\ task.pomodoro = None) =>
          /\ IsSome(task'.pomodoro)
          /\ LET p == Unwrap(task'.pomodoro)
                 L == SliceLength(task)
                 est == task.estimated_duration_minutes
             IN  /\ p.total_pomodoros >= 1
                 /\ p.total_pomodoros * L >= est
                 /\ p.total_pomodoros > 1 => (p.total_pomodoros - 1) * L < est
                 /\ est = 50 /\ L = 25 => p.total_pomodoros = 2
                 /\ est = 1 /\ L = 25 => p.total_pomodoros = 1
                 /\ p.completed_pomodoros = 0
                 /\ p.pomodoro_duration = L
                 /\ p.current_start = Some(now')]_vars

FirstStartWitness ==
    /\ op = "start"
    /\ statuses = {Pending, InProgress}
    /\ task.estimated_duration_minutes = 3
    /\ IsSome(task.pomodoro)
    /\ Unwrap(task.pomodoro).pomodoro_duration = 2
    /\ Unwrap(task.pomodoro).total_pomodoros = 2
    /\ Unwrap(task.pomodoro).current_start = Some(now)

\* C20: start on a task that already has a tracker never recreates it:
\* total_pomodoros, completed_pomodoros and pomodoro_duration keep their
\* values and only current_start is set to now; no operation of the
\* lifecycle lowers completed_pomodoros or drops the tracker.
RestartKeepsTracker ==
    [][IsSome(task.pomodoro) =>
          /\ IsSome(task'.pomodoro)
          /\ Unwrap(task'.pomodoro).completed_pomodoros >=
                 Unwrap(task.pomodoro).completed_pomodoros
          /\ op' = "start" =>
                 /\ SameSliceCounts(task, task')
                 /\ Unwrap(task'.pomodoro).pomodoro_duration =
                        Unwrap(task.pomodoro).pomodoro_duration
                 /\ task'.pomodoro =
                        Some([Unwrap(task.pomodoro) EXCEPT !.current_start = Some(now')])
      ]_vars

RestartWitness ==
    /\ op = "start"
    /\ IsSome(task.pomodoro)
    /\ Unwrap(task.pomodoro).completed_pomodoros >= 1
    /\ Unwrap(task.pomodoro).current_start = Some(now)

\* C14: for a Completed task with actual a > estimate e, a > 2e included,
\* from_task returns penalty = a - e, bonus = 0, wasted = 0 and
\* earned = max(0, e - (a - e)); earned is never negative.
LateEarnedFloored ==
    (out.op = "from_task" /\ out.task.status = Completed
        /\ IsSome(out.task.actual_duration_minutes)
        /\ Unwrap(out.task.actual_duration_minutes) > out.task.estimated_duration_minutes) =>
        LET e == out.task.estimated_duration_minutes
            a == Unwrap(out.task.actual_duration_minutes)
        IN  /\ out.perf.penalty_time = a - e
            /\ out.perf.bonus_time = 0
            /\ out.perf.wasted_time = 0
            /\ out.perf.earned_time = Max(0, e - (a - e))
            /\ out.perf.earned_time >= 0

\* C15: from_task returns (earned, bonus, penalty, wasted) = (e, e - a, 0, 0)
\* for a Completed task with a <= e, (e, 0, 0, 0) for a Completed task
\* without an actual duration, (0, 0, 0, e) for a Skipped task and
\* (0, 0, 0, 0) for a Pending, InProgress or Paused task.
FromTaskCases ==
    out.op = "from_task" =>
        LET t == out.task
            e == t.estimated_duration_minutes
            got == <<out.perf.earned_time, out.perf.bonus_time,
                     out.perf.penalty_time, out.perf.wasted_time>>
        IN  /\ (t.status = Completed /\ IsSome(t.actual_duration_minutes)
                   /\ Unwrap(t.actual_duration_minutes) <= e) =>
                   got = <<e, e - Unwrap(t.actual_duration_minutes), 0, 0>>
            /\ (t.status = Completed /\ t.actual_duration_minutes = None) =>
                   got = <<e, 0, 0, 0>>
            /\ t.status = Skipped => got = <<0, 0, 0, e>>
            /\ t.status \in {Pending, InProgress, Paused} => got = <<0, 0, 0, 0>>

FromTaskWitness ==
    /\ out.op = "from_task"
    /\ out.task.status = Completed
    /\ IsSome(out.task.actual_duration_minutes)
    /\ Unwrap(out.task.actual_duration_minutes) < out.task.estimated_duration_minutes
    /\ out.perf.bonus_time > 0

\* the sum of f over the indices in S
RECURSIVE SumOver(_, _)
SumOver(S, f) ==
    IF S = {} THEN 0
    ELSE LET i == CHOOSE x \in S : TRUE IN f[i] + SumOver(S \ {i}, f)

TotalWastedIsOverdueSum ==
    out.op = "total_wasted" =>
        LET ts == schedule.tasks
            overdue == {i \in DOMAIN ts : ts[i].status /= Completed /\ ts[i].end_time < now}
        IN  out.value = SumOver(overdue, [i \in overdue |-> ts[i].estimated_duration_minutes])

TotalWastedWitness ==
    /\ out.op = "total_wasted"
    /\ Len(schedule.tasks) = 2
    /\ \E i, j \in DOMAIN schedule.tasks :
           /\ schedule.tasks[i].status = Completed
           /\ schedule.tasks[i].end_time < now
           /\ schedule.tasks[i].estimated_duration_minutes > 0
           /\ schedule.tasks[j].status = Skipped
           /\ schedule.tasks[j].end_time >= now
    /\ out.value = 0

\* every schedule in storage: the history files and current.json
Stored(h, c) == {Unwrap(h[d]) : d \in {x \in DOMAIN h : IsSome(h[x])}}
                    \cup (IF IsSome(c) THEN {Unwrap(c)} ELSE {})

\* C18: calculate_stats stores the freshly computed completion_rate,
\* efficiency_score, total_earned, total_bonus and total_penalty in the
\* cached fields and never writes the cached total_wasted, the task list or
\* the change log; no command persists a schedule carrying a total_wasted
\* value it computed: the get commands, which compute one, save nothing.
StatsCachedWastedNeverStored ==
    [][/\ (out'.op \in {"get_schedule", "get_today_schedule"} /\ IsSome(out'.loaded)) =>
              LET l == Unwrap(out'.loaded)
                  s == Unwrap(out'.stats)
              IN  /\ s.completion_rate = Some(ScheduleCompletionRate(l))
                  /\ s.efficiency_score = Some(ScheduleEfficiencyScore(l))
                  /\ s.total_earned = Some(ScheduleTotalEarned(l))
                  /\ s.total_bonus = Some(ScheduleTotalBonus(l))
                  /\ s.total_penalty = Some(ScheduleTotalPenalty(l))
                  /\ s.total_wasted = l.total_wasted
                  /\ s.tasks = l.tasks
                  /\ s.changes = l.changes
                  /\ s.date = l.date
                  /\ IsSome(Unwrap(out'.returned).total_wasted)
                  /\ history' = history /\ current' = current
       /\ \A s \in Stored(history', current') : s.total_wasted = None
      ]_vars

StatsWitness ==
    /\ out.op = "get_schedule"
    /\ IsSome(out.returned)
    /\ Unwrap(out.stats).total_wasted = None
    /\ Unwrap(Unwrap(out.returned).total_wasted) > 0
    /\ IsSome(Unwrap(out.stats).completion_rate)
    /\ IsSome(Unwrap(out.stats).total_earned)
    /\ \A s \in Stored(history, current) : s.total_wasted = None

\* C21: PomodoroSession::new(m) returns a session whose total_pomodoros is
\* the number of 25-minute slices that cover m minutes, ceil(m / 25) (2 for
\* m = 50), and whose completed_pomodoros is 0.
NewSessionCoversEstimate ==
    out.op = "new" =>
        /\ psession.total_pomodoros * 25 >= out.estimated_minutes
        /\ (psession.total_pomodoros - 1) * 25 < out.estimated_minutes
        /\ psession.completed_pomodoros = 0

\* C22: in the pomodoro-complete flow the break announced after the k-th
\* completed slice is the long break exactly when k is a multiple of 4, and
\* the short break otherwise.
LongBreakAfterEveryFourth ==
    (out.op = "pomodoro_complete" /\ ~out.is_complete) =>
        IF out.completed % 4 = 0
        THEN out.break_duration = psession.long_break
        ELSE out.break_duration = psession.short_break

\* C23: for every value of completed_pomodoros, next_break_duration returns
\* long_break if completed_pomodoros + 1 is a multiple of 4 and short_break
\* otherwise, and changes no field of the session.
NextBreakRule ==
    [][out'.op = "next_break_duration" =>
          /\ psession' = psession
          /\ out'.value =
                 IF \E j \in 1..(MaxSlices + 1) : psession.completed_pomodoros + 1 = 4 * j
                 THEN psession.long_break ELSE psession.short_break
          /\ psession.long_break = 15 /\ psession.short_break = 5]_vars

NextBreakWitness ==
    /\ out.op = "next_break_duration"
    /\ psession.completed_pomodoros = 7
    /\ out.value = 15

\* C24: update(r) with r >= 70, exactly 70 included, sets current_streak to
\* its previous value + 1 and best_streak to max(previous best_streak, new
\* current_streak); update(r) with r < 70 sets current_streak to 0 and
\* leaves best_streak unchanged; the rates 80, 90, 50 on a new record give
\* current_streak 1, 2, 0 with best_streak 2 at the end.
StreakUpdateRule ==
    [][/\ out'.op = "update" =>
              LET r == out'.completion_rate
              IN  IF r.num >= 70 * r.den
                  THEN /\ streak'.current_streak = streak.current_streak + 1
                       /\ streak'.best_streak =
                              Max(streak.best_streak, streak'.current_streak)
                  ELSE /\ streak'.current_streak = 0
                       /\ streak'.best_streak = streak.best_streak
       /\ LET s1 == StreakInfoUpdate(StreakInfoNew(0), [num |-> 80, den |-> 1], 0)
              s2 == StreakInfoUpdate(s1, [num |-> 90, den |-> 1], 0)
              s3 == StreakInfoUpdate(s2, [num |-> 50, den |-> 1], 0)
          IN  /\ <<s1.current_streak, s2.current_streak, s3.current_streak>> = <<1, 2, 0>>
              /\ s3.best_streak = 2
      ]_vars

StreakUpdateWitness ==
    /\ out.op = "update"
    /\ out.completion_rate = [num |-> 70, den |-> 1]
    /\ streak.current_streak = 2
    /\ streak.best_streak = 3

\* C25: across any sequence of update and reset calls on a new StreakInfo,
\* best_streak never decreases and best_streak >= current_streak holds in
\* every reachable state.
BestStreakMonotonic ==
    [][/\ streak.best_streak >= streak.current_streak
       /\ streak'.best_streak >= streak'.current_streak
       /\ streak'.best_streak >= streak.best_streak]_vars

BestStreakWitness ==
    /\ out.op = "reset"
    /\ streak.current_streak = 0
    /\ streak.best_streak = MaxStreak

\* ------------------------------------------- models/schedule.rs: change log
\* DateTime::format("%H:%M"): the minute of the day of an instant
FormatHM(dt) == (dt % TicksPerDay) \div TicksPerMinute

\* i64::abs
Abs(x) == IF x < 0 THEN 0 - x ELSE x

\* ScheduleChange::schedule_shifted, made at instant n
ScheduleShifted(from_task, minutes, affected_count, n) ==
    [timestamp |-> n,
     change_type |-> "ScheduleShifted",
     task_title |-> Some(from_task),
     old_time |-> None,
     new_time |-> None,
     affected_tasks_count |-> Some(affected_count),
     description |-> <<from_task, affected_count, Abs(minutes),
                       IF minutes > 0 THEN "later" ELSE "earlier", affected_count>>]

\* ScheduleChange::task_updated, made at instant n
TaskUpdated(task_title, old_time, new_time, n) ==
    [timestamp |-> n,
     change_type |-> "TaskUpdated",
     task_title |-> Some(task_title),
     old_time |-> Some(old_time),
     new_time |-> Some(new_time),
     affected_tasks_count |-> None,
     description |-> <<task_title, old_time, new_time>>]

\* Schedule::add_change
AddChange(s, change) == [s EXCEPT !.changes = Append(@, change)]

\* shifting the tasks after the anchor only
ShiftTasksAfterAnchor(tasks, from_index, shift_minutes) ==
    [i \in 1..Len(tasks) |->
        IF i > from_index + 1
        THEN [tasks[i] EXCEPT
                 !.start_time = @ + shift_minutes * TicksPerMinute,
                 !.end_time = @ + shift_minutes * TicksPerMinute]
        ELSE tasks[i]]

\* the loop of shift_schedule: from_index is 0-based, as in the code
ShiftTasks(tasks, from_index, shift_minutes) ==
    [i \in 1..Len(tasks) |->
        IF i >= from_index + 1
        THEN [tasks[i] EXCEPT
                 !.start_time = @ + shift_minutes * TicksPerMinute,
                 !.end_time = @ + shift_minutes * TicksPerMinute]
        ELSE tasks[i]]

\* shift_schedule on the schedule it loaded, at instant n: whether it
\* succeeded, and the schedule it saves
ShiftSchedule(s, from_index, shift_minutes, n) ==
    IF from_index >= Len(s.tasks)
    THEN [ok |-> FALSE, schedule |-> s]
    ELSE LET from_task_title == s.tasks[from_index + 1].title
             affected_count == Len(s.tasks) - from_index
             shifted == [s EXCEPT !.tasks = ShiftTasks(@, from_index, shift_minutes)]
         IN  [ok |-> TRUE,
              schedule |-> AddChange(shifted,
                                     ScheduleShifted(from_task_title, shift_minutes,
                                                     affected_count, n))]

\* update_task recomputing the estimate from the new times
UpdateTaskReestimate(s, day, index, input, n) ==
    IF index >= Len(s.tasks)
    THEN [ok |-> FALSE, schedule |-> s]
    ELSE LET start == TimeOnDate(day, input.start_time)
             end == TimeOnDate(day, input.end_time)
         IN  [ok |-> TRUE,
              schedule |-> [s EXCEPT !.tasks[index + 1] =
                               [@ EXCEPT !.title = input.title,
                                         !.start_time = start,
                                         !.end_time = end,
                                         !.estimated_duration_minutes =
                                             NumMinutes(end - start)]]]

\* update_task rewriting the change log instead of appending to it
UpdateTaskRewritesLog(s, day, index, input, n) ==
    IF index >= Len(s.tasks)
    THEN [ok |-> FALSE, schedule |-> s]
    ELSE LET old == s.tasks[index + 1]
             old_time == <<FormatHM(old.start_time), FormatHM(old.end_time)>>
             new_time == <<input.start_time, input.end_time>>
             updated == [s EXCEPT !.tasks[index + 1] =
                            [@ EXCEPT !.title = input.title,
                                      !.start_time = TimeOnDate(day, input.start_time),
                                      !.end_time = TimeOnDate(day, input.end_time)]]
         IN  [ok |-> TRUE,
              schedule |-> IF old_time /= new_time
                           THEN [updated EXCEPT !.changes =
                                    <<TaskUpdated(old.title, old_time, new_time, n)>>]
                           ELSE updated]

\* update_task of the GUI on the schedule it loaded for a day, at instant n:
\* tags and notes are taken from the input too, which here always leaves
\* them empty
UpdateTask(s, day, index, input, n) ==
    IF index >= Len(s.tasks)
    THEN [ok |-> FALSE, schedule |-> s]
    ELSE LET old == s.tasks[index + 1]
             old_time == <<FormatHM(old.start_time), FormatHM(old.end_time)>>
             new_time == <<input.start_time, input.end_time>>
             updated == [s EXCEPT !.tasks[index + 1] =
                            [@ EXCEPT !.title = input.title,
                                      !.start_time = TimeOnDate(day, input.start_time),
                                      !.end_time = TimeOnDate(day, input.end_time),
                                      !.tags = <<>>,
                                      !.notes = None]]
         IN  [ok |-> TRUE,
              schedule |-> IF old_time /= new_time
                           THEN AddChange(updated,
                                          TaskUpdated(old.title, old_time, new_time, n))
                           ELSE updated]

\* the first of a non-empty set of positions: where Iterator::find and
\* min_by_key stop among the positions that qualify
FirstOf(positions) == CHOOSE i \in positions : \A j \in positions : i <= j

\* Task::is_current
IsCurrent(t) == t.status = InProgress

\* get_current_task returning the last task in progress
GetCurrentTaskLast(s) ==
    IF \E i \in 1..Len(s.tasks) : IsCurrent(s.tasks[i])
    THEN Some(s.tasks[CHOOSE i \in 1..Len(s.tasks) :
                          /\ IsCurrent(s.tasks[i])
                          /\ \A j \in (i + 1)..Len(s.tasks) : ~IsCurrent(s.tasks[j])])
    ELSE None

\* Schedule::get_current_task: iter().find, the first task in progress
GetCurrentTask(s) ==
    LET found == {i \in 1..Len(s.tasks) : IsCurrent(s.tasks[i])}
    IN  IF found = {} THEN None ELSE Some(s.tasks[FirstOf(found)])

\* get_next_task returning the first pending task of the list
GetNextTaskFirstPending(s) ==
    LET pending == {i \in 1..Len(s.tasks) : s.tasks[i].status = Pending}
    IN  IF pending = {} THEN None ELSE Some(s.tasks[FirstOf(pending)])

\* Schedule::get_next_task: filter on Pending, then min_by_key on
\* start_time, which returns the first of several minima
GetNextTask(s) ==
    LET pending == {i \in 1..Len(s.tasks) : s.tasks[i].status = Pending}
        minima == {i \in pending :
                      \A j \in pending : s.tasks[i].start_time <= s.tasks[j].start_time}
    IN  IF pending = {} THEN None ELSE Some(s.tasks[FirstOf(minima)])

\* ------------------------------------ the commands on one day's schedule
\* The schedule file of day EditDay, which is today, under the commands that
\* load it, change it and save it; schedule is the content of the file.
EditDay == 1

EditTimes == {0, 1}

EditInputs ==
    {[title |-> "a", start_time |-> 0, end_time |-> 1],
     [title |-> "b", start_time |-> 1, end_time |-> 1]}

ShiftMinutes == {0 - 1, 1}

\* the position the lifecycle commands and delete_task are given: the head
\* of the list
HeadIndexes == {0}

\* the task the GUI adds: an empty interval, which add_task takes as it is
GuiInputs == {[title |-> "b", start_time |-> 1, end_time |-> 1]}

\* the clock: the commands are given within the first tick of the day
EditLastInstant == Midnight(EditDay)

InitEdit ==
    /\ task = TaskNew(0, "a", 0, 0)
    /\ now = Midnight(EditDay)
    /\ statuses = {Pending}
    /\ op = "new"
    /\ schedule = ScheduleNew(Midnight(EditDay))
    /\ nextId = 1
    /\ ret = [op |-> "new", start |-> 0, end |-> 0, id |-> 0, ok |-> TRUE, err |-> None]
    /\ history = [d \in 1..MaxDay |-> None]
    /\ current = None
    /\ today = EditDay
    /\ cmd = [op |-> "none", ok |-> TRUE]
    /\ out = NoOut
    /\ psession = PomodoroSessionNew(0)
    /\ streak = StreakInfoNew(0)
    /\ NoProcesses

\* what a command leaves alone besides the schedule file, the clock and
\* its own outcome
EditRest == <<procVars, recordVars, task, statuses, op, ret, storeVars>>

\* src-tauri/src/main.rs add_task(date, task_input)
EditAddTask ==
    \E input \in GuiInputs : \E n \in now..EditLastInstant :
        /\ Len(schedule.tasks) < MaxEditTasks
        /\ nextId <= MaxEditTasks
        /\ schedule' = [schedule EXCEPT
                           !.tasks = Append(@, TaskOfInput(nextId, EditDay, input))]
        /\ nextId' = nextId + 1
        /\ now' = n
        /\ out' = NoOut
        /\ UNCHANGED EditRest

\* cli/commands.rs add_task: the conflict check, then sort_by_time
EditCliAdd ==
    \E input \in EditInputs : \E n \in now..EditLastInstant :
        LET t == TaskOfInput(nextId, EditDay, input)
            r == ScheduleAddTask(schedule, t)
            ok == t.end_time > t.start_time /\ r.ok
        IN  /\ ok => (Len(schedule.tasks) < MaxEditTasks /\ nextId <= MaxEditTasks)
            /\ schedule' = IF ok
                           THEN [r.schedule EXCEPT !.tasks = SortByTime(@)]
                           ELSE schedule
            /\ nextId' = IF ok THEN nextId + 1 ELSE nextId
            /\ now' = n
            /\ out' = NoOut
            /\ UNCHANGED EditRest

\* src-tauri/src/main.rs delete_task(date, index)
EditDeleteTask ==
    \E index \in HeadIndexes : \E n \in now..EditLastInstant :
        LET ok == index < Len(schedule.tasks)
        IN  /\ schedule' = IF ok
                           THEN [schedule EXCEPT !.tasks = RemoveAt(@, index + 1)]
                           ELSE schedule
            /\ now' = n
            /\ out' = NoOut
            /\ UNCHANGED <<nextId, EditRest>>

\* src-tauri/src/shift_schedule.rs shift_schedule(date, from_index,
\* shift_minutes) at instant n
ShiftStep(from_index, shift_minutes, n) ==
    LET r == ShiftSchedule(schedule, from_index, shift_minutes, n)
    IN  /\ r.ok => Len(schedule.changes) < MaxChanges
        /\ schedule' = r.schedule
        /\ now' = n
        /\ out' = IF r.ok THEN [op |-> "shift_schedule", ok |-> TRUE] ELSE NoOut
        /\ UNCHANGED <<nextId, EditRest>>

EditShiftSchedule ==
    \E from_index \in 0..MaxEditTasks : \E shift_minutes \in ShiftMinutes :
    \E n \in now..EditLastInstant :
        ShiftStep(from_index, shift_minutes, n)

\* src-tauri/src/main.rs update_task(date, index, task_input)
EditUpdateTask ==
    \E index \in 0..MaxEditTasks : \E input \in EditInputs :
    \E n \in now..EditLastInstant :
        LET r == UpdateTask(schedule, EditDay, index, input, n)
        IN  /\ Len(r.schedule.changes) <= MaxChanges
            /\ schedule' = r.schedule
            /\ now' = n
            /\ out' = NoOut
            /\ UNCHANGED <<nextId, EditRest>>

\* a lifecycle command on the task at an index: the schedule it saves
EditLifecycle(name, index, t, n) ==
    LET ok == index < Len(schedule.tasks)
    IN  /\ schedule' = IF ok THEN [schedule EXCEPT !.tasks[index + 1] = t]
                       ELSE schedule
        /\ now' = n
        /\ out' = NoOut
        /\ UNCHANGED <<nextId, EditRest>>

\* the task at an index, any task where there is none
EditTaskAt(index) ==
    IF index < Len(schedule.tasks) THEN schedule.tasks[index + 1]
    ELSE TaskNew(0, "a", 0, 0)

\* src-tauri/src/main.rs start_task(date, index)
EditStartTask ==
    \E index \in HeadIndexes :
    \E n1 \in now..EditLastInstant : \E n2 \in n1..EditLastInstant :
        EditLifecycle("start", index, TaskStart(EditTaskAt(index), n1, n2), n2)

\* src-tauri/src/main.rs pause_task(date, index)
EditPauseTask ==
    \E index \in HeadIndexes : \E n \in now..EditLastInstant :
        EditLifecycle("pause", index, TaskPause(EditTaskAt(index)), n)

\* src-tauri/src/main.rs resume_task(date, index)
EditResumeTask ==
    \E index \in HeadIndexes : \E n \in now..EditLastInstant :
        EditLifecycle("resume", index, TaskResume(EditTaskAt(index), n), n)

\* src-tauri/src/main.rs complete_task(date, index, _focus_score)
EditCompleteTask ==
    \E index \in HeadIndexes : \E n \in now..EditLastInstant :
        EditLifecycle("complete", index, TaskComplete(EditTaskAt(index), n), n)

\* Task::skip on the task at an index: a public method on an element of the
\* schedule's public task list, which no command calls
EditSkipTask ==
    \E index \in HeadIndexes : \E n \in now..EditLastInstant :
        EditLifecycle("skip", index, TaskSkip(EditTaskAt(index)), n)

\* src-tauri/src/main.rs get_schedule(date): calculate_stats on the loaded
\* copy, which is returned and not saved
EditGetSchedule ==
    \E n \in now..EditLastInstant :
        /\ out' = [op |-> "get_schedule", ok |-> TRUE,
                   changes |-> Unwrap(Answer("get_schedule", Some(schedule), n).returned).changes]
        /\ now' = n
        /\ UNCHANGED <<schedule, nextId, EditRest>>

NextEdit ==
    \/ EditAddTask \/ EditCliAdd \/ EditDeleteTask
    \/ EditShiftSchedule \/ EditUpdateTask
    \/ EditStartTask \/ EditPauseTask \/ EditResumeTask
    \/ EditCompleteTask \/ EditSkipTask
    \/ EditGetSchedule

SpecEdit == InitEdit /\ [][NextEdit]_vars

\* ------------------------------------ the current and the next task of a day
\* a task of the day that starts at an instant and was brought to a status
LookupKinds ==
    [start : {0, TicksPerMinute},
     how : {"new", "started", "paused", "skipped", "completed"}]

LookupTask(id, k) ==
    LET new == TaskNew(id, "a", k.start, k.start + TicksPerMinute)
        started == TaskStart(new, 0, 0)
    IN  CASE k.how = "new" -> new
          [] k.how = "started" -> started
          [] k.how = "paused" -> TaskPause(started)
          [] k.how = "skipped" -> TaskSkip(new)
          [] k.how = "completed" -> TaskComplete(started, 0)

InitLookup ==
    /\ schedule \in
           { [ScheduleNew(0) EXCEPT
                 !.tasks = [i \in DOMAIN kinds |-> LookupTask(i, kinds[i])]] :
                 kinds \in UNION { [1..n -> LookupKinds] : n \in 0..MaxLookupTasks } }
    /\ now = 0
    /\ out = NoOut
    /\ psession = PomodoroSessionNew(0)
    /\ streak = StreakInfoNew(0)
    /\ NoProcesses
    /\ task = TaskNew(0, "a", 0, 0)
    /\ statuses = {Pending}
    /\ op = "new"
    /\ nextId = 1
    /\ ret = [op |-> "new", start |-> 0, end |-> 0, id |-> 0, ok |-> TRUE, err |-> None]
    /\ history = [d \in 1..MaxDay |-> None]
    /\ current = None
    /\ today = 1
    /\ cmd = [op |-> "none", ok |-> TRUE]

\* cli/commands.rs show_status: get_current_task, then get_next_task
LookupStatus ==
    /\ out' = [op |-> "status", ok |-> TRUE,
               current |-> GetCurrentTask(schedule),
               next |-> GetNextTask(schedule)]
    /\ UNCHANGED <<schedule, now, nextId, EditRest>>

\* start_task pausing every other task that is InProgress
StartByIdExclusive(s, id, n) ==
    LET found == {i \in 1..Len(s.tasks) : s.tasks[i].id = id}
    IN  IF found = {} THEN s
        ELSE [s EXCEPT !.tasks = [i \in DOMAIN s.tasks |->
                                     IF i = FirstOf(found) THEN TaskStart(s.tasks[i], n, n)
                                     ELSE TaskPause(s.tasks[i])]]

\* Schedule::find_task_mut(id).start(), as start_task does it at instant n
StartById(s, id, n) ==
    LET found == {i \in 1..Len(s.tasks) : s.tasks[i].id = id}
    IN  IF found = {} THEN s
        ELSE [s EXCEPT !.tasks[FirstOf(found)] = TaskStart(@, n, n)]

\* cli/commands.rs start_task without an id: starts get_next_task
LookupStartNext ==
    LET next == GetNextTask(schedule)
    IN  /\ schedule' = IF next = None THEN schedule
                       ELSE StartById(schedule, Unwrap(next).id, now)
        /\ out' = [op |-> "start", ok |-> IsSome(next), next |-> next]
        /\ UNCHANGED <<now, nextId, EditRest>>

NextLookup == LookupStatus \/ LookupStartNext

SpecLookup == InitLookup /\ [][NextLookup]_vars

EstimateFixed ==
    [][\A i \in 1..Len(schedule'.tasks) :
           LET after == schedule'.tasks[i]
           IN  IF \E j \in 1..Len(schedule.tasks) : schedule.tasks[j].id = after.id
               THEN \A j \in 1..Len(schedule.tasks) :
                        schedule.tasks[j].id = after.id =>
                            after.estimated_duration_minutes =
                                schedule.tasks[j].estimated_duration_minutes
               ELSE after.estimated_duration_minutes =
                        NumMinutes(after.end_time - after.start_time)]_vars

\* update_task has given a started task other times, and its estimate is
\* no longer the length of its interval
EstimateWitness ==
    /\ Len(schedule.tasks) >= 1
    /\ Len(schedule.changes) = 1
    /\ schedule.changes[1].change_type = "TaskUpdated"
    /\ schedule.tasks[1].status = InProgress
    /\ schedule.tasks[1].estimated_duration_minutes = 1
    /\ schedule.tasks[1].end_time = schedule.tasks[1].start_time

\* whether one sequence begins with another
IsPrefix(s, t) == Len(s) <= Len(t) /\ SubSeq(t, 1, Len(s)) = s

Least(S) == CHOOSE i \in S : \A j \in S : i <= j

\* C29: get_current_task returns the task in progress of the lowest
\* position, and nothing exactly when no task is in progress.
CurrentIsFirstInProgress ==
    [][out'.op = "status" =>
           LET inProgress == {i \in 1..Len(schedule.tasks) :
                                 schedule.tasks[i].status = InProgress}
           IN  IF inProgress = {} THEN out'.current = None
               ELSE out'.current = Some(schedule.tasks[Least(inProgress)])]_vars

\* two tasks are in progress and the first of them was returned
CurrentWitness ==
    /\ out.op = "status"
    /\ Len(schedule.tasks) = 2
    /\ schedule.tasks[1].status = InProgress
    /\ schedule.tasks[2].status = InProgress
    /\ schedule.tasks[1] /= schedule.tasks[2]
    /\ out.current = Some(schedule.tasks[1])

\* C30: get_next_task returns the pending task of the earliest start_time,
\* the one of the lowest position among several of that start_time, nothing
\* exactly when no task is pending, and never a task that is not pending.
NextIsEarliestPending ==
    [][out'.op \in {"status", "start"} =>
           LET pending == {i \in 1..Len(schedule.tasks) :
                              schedule.tasks[i].status = Pending}
               earliest == {i \in pending :
                               \A j \in pending : schedule.tasks[i].start_time
                                                    <= schedule.tasks[j].start_time}
           IN  IF pending = {} THEN out'.next = None
               ELSE /\ out'.next = Some(schedule.tasks[Least(earliest)])
                    /\ Unwrap(out'.next).status = Pending]_vars

\* two pending tasks start at the same instant and the first was returned
NextWitness ==
    /\ out.op = "status"
    /\ Len(schedule.tasks) = 2
    /\ schedule.tasks[1].status = Pending
    /\ schedule.tasks[2].status = Pending
    /\ schedule.tasks[1].start_time = schedule.tasks[2].start_time
    /\ schedule.tasks[1] /= schedule.tasks[2]
    /\ out.next = Some(schedule.tasks[1])

\* ------------------------------------- the statistics as functions of state
\* tasks of the day: unfinished or finished, planned to end before or after
\* the first reading of the clock
PureKinds ==
    [end : {2 * TicksPerMinute + 1, 4 * TicksPerMinute},
     how : {"new", "started", "skipped"}, actual : {0}]
    \cup [end : {2 * TicksPerMinute + 1}, how : {"ran"}, actual : 1..3]
    \cup [end : {4 * TicksPerMinute}, how : {"ran"}, actual : {1}]

\* the first and the last reading of the clock
PureFirstInstant == 3 * TicksPerMinute

PureLastInstant == 4 * TicksPerMinute + 1

InitPure ==
    /\ schedule \in
           { [ScheduleNew(0) EXCEPT
                 !.tasks = [i \in DOMAIN kinds |-> TaskOfKind(i, kinds[i])]] :
                 kinds \in UNION { [1..n -> PureKinds] : n \in 0..MaxPureTasks } }
    /\ now = PureFirstInstant
    /\ out = NoOut
    /\ psession = PomodoroSessionNew(0)
    /\ streak = StreakInfoNew(0)
    /\ NoProcesses
    /\ task = TaskNew(0, "a", 0, 0)
    /\ statuses = {Pending}
    /\ op = "new"
    /\ nextId = 1
    /\ ret = [op |-> "new", start |-> 0, end |-> 0, id |-> 0, ok |-> TRUE, err |-> None]
    /\ history = [d \in 1..MaxDay |-> None]
    /\ current = None
    /\ today = 1
    /\ cmd = [op |-> "none", ok |-> TRUE]

\* the five statistics read off a schedule, then calculate_stats at instant
\* n and once more at instant n2 on its result
PureStats(s, n, n2) ==
    LET cached == CalculateStats(s, n)
    IN  [op |-> "stats",
         completion_rate |-> ScheduleCompletionRate(s),
         efficiency_score |-> ScheduleEfficiencyScore(s),
         total_earned |-> ScheduleTotalEarned(s),
         total_bonus |-> ScheduleTotalBonus(s),
         total_penalty |-> ScheduleTotalPenalty(s),
         cached |-> cached,
         again |-> CalculateStats(cached, n2)]

\* the statistics computed on the schedule, which takes &self: nothing is
\* written back
PureCompute ==
    \E n \in now..PureLastInstant : \E n2 \in n..PureLastInstant :
        /\ out' = PureStats(schedule, n, n2)
        /\ now' = n2
        /\ UNCHANGED <<procVars, recordVars, task, statuses, op, schedVars, storeVars>>

\* Task::complete on an unfinished task of the day
PureComplete ==
    \E i \in DOMAIN schedule.tasks : \E n \in now..PureLastInstant :
        /\ schedule.tasks[i].status /= Completed
        /\ schedule' = [schedule EXCEPT !.tasks[i] = TaskComplete(@, n)]
        /\ now' = n
        /\ out' = [op |-> "complete"]
        /\ UNCHANGED <<procVars, recordVars, task, statuses, op, nextId, ret, storeVars>>

NextPure == PureCompute \/ PureComplete

SpecPure == InitPure /\ [][NextPure]_vars

\* C31: completion_rate, efficiency_score, total_earned, total_bonus and
\* total_penalty depend on the schedule alone: computing them leaves the
\* schedule as it was, a second calculate_stats at a later instant changes
\* nothing of the first one's result, and two computations with no change
\* of the schedule between them give the same values whatever the clock.
StatsRepeatable ==
    [][out'.op = "stats" =>
           /\ schedule' = schedule
           /\ out'.again = out'.cached
           /\ out'.cached.completion_rate = Some(out'.completion_rate)
           /\ out'.cached.efficiency_score = Some(out'.efficiency_score)
           /\ out'.cached.total_earned = Some(out'.total_earned)
           /\ out'.cached.total_bonus = Some(out'.total_bonus)
           /\ out'.cached.total_penalty = Some(out'.total_penalty)
           /\ out.op = "stats" => out' = out]_vars

\* the statistics were computed after the clock passed the planned end of a
\* task finished early, with bonus and penalty both present
StatsRepeatableWitness ==
    /\ out.op = "stats"
    /\ now = PureLastInstant
    /\ out.total_bonus > 0
    /\ out.total_penalty > 0
    /\ out.total_earned > 0
    /\ \E i \in DOMAIN schedule.tasks :
           /\ schedule.tasks[i].status = Completed
           /\ schedule.tasks[i].end_time = 4 * TicksPerMinute

\* ------------------------------------------- load_today and the calendar
\* the tasks the GUI adds to the schedule of a day: from midnight, for no
\* time or for a minute
CalendarInputs == [title : StoreTitles, start_time : {0}, end_time : 0..1]

\* src-tauri/src/main.rs add_task(date, task_input) with such an input, for
\* any day: the schedule is loaded or made, the task pushed, the schedule
\* saved
CalendarGuiAddTask ==
    \E day \in 1..MaxDay : \E input \in CalendarInputs :
        LET datetime == Midnight(day)
            loaded == IF IsSome(LoadSchedule(datetime))
                      THEN Unwrap(LoadSchedule(datetime))
                      ELSE ScheduleNew(datetime)
            t == TaskOfInput(nextId, day, input)
        IN  /\ nextId <= MaxStoreIds
            /\ Len(loaded.tasks) < MaxStored
            /\ SaveSchedule([loaded EXCEPT !.tasks = Append(@, t)])
            /\ nextId' = nextId + 1
            /\ cmd' = [op |-> "gui_add_task", ok |-> TRUE]
            /\ out' = NoOut
            /\ UNCHANGED <<procVars, recordVars, today, taskVars, schedule, ret>>

\* the commands that add a task to a stored schedule, as the days pass
NextCalendar == CliAdd \/ CalendarGuiAddTask \/ NextDay

SpecCalendar == InitStore /\ [][NextCalendar]_vars

\* C32: load_today never returns a schedule dated on another calendar day
\* than the clock's: a schedule of day D saved while the clock is on day D
\* is what load_today returns for as long as the clock stays on day D and
\* nothing else is saved for D; once the clock has moved to a later day
\* load_today returns nothing, while the history file of D is untouched, so
\* load_schedule(D) still returns the schedule.
LoadTodayIsToday ==
    [][/\ IsSome(LoadToday') =>
              /\ DateNaive(Unwrap(LoadToday').date) = today'
              /\ LoadToday' = LoadSchedule(Midnight(today))'
       /\ (today' = today /\ history'[today] /= history[today]) =>
              (LoadToday' = history'[today] /\ IsSome(LoadToday'))
       /\ (today' = today /\ IsSome(LoadToday) /\ history'[today] = history[today]) =>
              LoadToday' = LoadToday
       /\ today' /= today =>
              /\ today' > today
              /\ LoadToday' = None
              /\ \A d \in DOMAIN history :
                     LoadSchedule(Midnight(d))' = LoadSchedule(Midnight(d))
      ]_vars

LoadTodayWitness ==
    /\ today = 2
    /\ IsSome(current)
    /\ DateNaive(Unwrap(current).date) = 1
    /\ Len(Unwrap(current).tasks) > 0
    /\ LoadToday = None
    /\ LoadSchedule(Midnight(1)) = current

\* C33: no add or update operation stores a task whose planned end is not
\* strictly after its planned start: every task of every stored schedule
\* has start_time < end_time.
StoredEndAfterStart ==
    \A s \in Stored(history, current) :
        \A i \in DOMAIN s.tasks : s.tasks[i].start_time < s.tasks[i].end_time

\* --------------------------- lifecycle commands on the tasks of one schedule
\* the instant the clock shows while the commands run, within the first task
LifeInstant == 1

\* a day's schedule of Pending tasks, one after the other from instant 0
InitLife ==
    /\ schedule \in
           { [ScheduleNew(0) EXCEPT
                 !.tasks = [i \in 1..k |->
                               TaskNew(i, "a", (i - 1) * TicksPerMinute, i * TicksPerMinute)]] :
                 k \in 1..MaxLifeTasks }
    /\ now = LifeInstant
    /\ out = NoOut
    /\ psession = PomodoroSessionNew(0)
    /\ streak = StreakInfoNew(0)
    /\ NoProcesses
    /\ task = TaskNew(0, "a", 0, 0)
    /\ statuses = {Pending}
    /\ op = "new"
    /\ nextId = 1
    /\ ret = [op |-> "new", start |-> 0, end |-> 0, id |-> 0, ok |-> TRUE, err |-> None]
    /\ history = [d \in 1..MaxDay |-> None]
    /\ current = None
    /\ today = 1
    /\ cmd = [op |-> "none", ok |-> TRUE]

\* what a lifecycle command leaves behind: the schedule it saved, and the
\* position of the task it acted on (0 when it failed and saved nothing)
LifeSaved(s, position, n) ==
    /\ schedule' = s
    /\ now' = n
    /\ out' = [op |-> "lifecycle", position |-> position]
    /\ UNCHANGED <<nextId, EditRest>>

\* the position of the first task with an id, 0 if there is none
PositionOfId(s, id) ==
    LET found == {i \in 1..Len(s.tasks) : s.tasks[i].id = id}
    IN  IF found = {} THEN 0 ELSE FirstOf(found)

\* cli/commands.rs start_task(id): `sched start [id]`; id 0 is no id given
LifeCliStart ==
    \E id \in 0..MaxLifeTasks : \E n \in {now} :
        LET next == GetNextTask(schedule)
            task_id == IF id /= 0 THEN id
                       ELSE IF IsSome(next) THEN Unwrap(next).id ELSE 0
        IN  IF id = 0 /\ next = None THEN LifeSaved(schedule, 0, n)
            ELSE LifeSaved(StartById(schedule, task_id, n),
                           PositionOfId(schedule, task_id), n)

\* cli/commands.rs pause_task: `sched pause`, on get_current_task
LifeCliPause ==
    \E n \in {now} :
        LET cur == GetCurrentTask(schedule)
            position == IF cur = None THEN 0 ELSE PositionOfId(schedule, Unwrap(cur).id)
        IN  IF position = 0 THEN LifeSaved(schedule, 0, n)
            ELSE LifeSaved([schedule EXCEPT !.tasks[position] = TaskPause(@)], position, n)

\* cli/commands.rs complete_task: `sched complete`, on get_current_task
LifeCliComplete ==
    \E n \in {now} :
        LET cur == GetCurrentTask(schedule)
            position == IF cur = None THEN 0 ELSE PositionOfId(schedule, Unwrap(cur).id)
        IN  IF position = 0 THEN LifeSaved(schedule, 0, n)
            ELSE LifeSaved([schedule EXCEPT !.tasks[position] = TaskComplete(@, n)],
                           position, n)

\* src-tauri/src/main.rs start_task, pause_task, resume_task and
\* complete_task(date, index), and Task::skip on schedule.tasks[index]
LifeGui ==
    \E name \in {"start", "pause", "resume", "complete", "skip"} :
    \E index \in 0..MaxLifeTasks : \E n \in {now} :
        IF index >= Len(schedule.tasks) THEN LifeSaved(schedule, 0, n)
        ELSE LET t == schedule.tasks[index + 1]
                 u == CASE name = "start" -> TaskStart(t, n, n)
                        [] name = "pause" -> TaskPause(t)
                        [] name = "resume" -> TaskResume(t, n)
                        [] name = "complete" -> TaskComplete(t, n)
                        [] name = "skip" -> TaskSkip(t)
             IN  LifeSaved([schedule EXCEPT !.tasks[index + 1] = u], index + 1, n)

NextLife == LifeCliStart \/ LifeCliPause \/ LifeCliComplete \/ LifeGui

SpecLife == InitLife /\ [][NextLife]_vars

\* C34: a lifecycle operation applied to one task of a schedule leaves
\* every other task, the date and the change log as they were, and keeps
\* the number of tasks; starting a task while another is InProgress does
\* not pause the other.
OtherTasksUntouched ==
    [][out'.op = "lifecycle" =>
           /\ Len(schedule'.tasks) = Len(schedule.tasks)
           /\ \A j \in DOMAIN schedule.tasks :
                  j /= out'.position => schedule'.tasks[j] = schedule.tasks[j]
           /\ [schedule' EXCEPT !.tasks = <<>>] = [schedule EXCEPT !.tasks = <<>>]
           /\ out'.position = 0 => schedule' = schedule
      ]_vars

\* two tasks InProgress at once, the second started while the first ran
TwoInProgressWitness ==
    /\ out.op = "lifecycle"
    /\ out.position = 2
    /\ Len(schedule.tasks) >= 2
    /\ schedule.tasks[1].status = InProgress
    /\ schedule.tasks[2].status = InProgress
    /\ IsSome(Unwrap(schedule.tasks[1].pomodoro).current_start)
    /\ IsSome(Unwrap(schedule.tasks[2].pomodoro).current_start)

\* C37: in every state reachable from a new task by start, pause, resume,
\* complete, skip and complete_pomodoro, the tracker's current_start is
\* present only if the task is InProgress.
RunningSliceOnlyInProgress ==
    (IsSome(task.pomodoro) /\ IsSome(Unwrap(task.pomodoro).current_start)) =>
        task.status = InProgress

\* C38: whenever a schedule is stored for the clock's calendar day,
\* load_today returns it, that is load_today agrees with
\* load_schedule(today); and a successful `sched add` keeps every task that
\* was stored for the day before it.
LoadTodayAgreesWithHistory ==
    [][/\ LoadToday' = LoadSchedule(Midnight(today))'
       /\ (cmd'.op = "cli_add" /\ cmd'.ok /\ IsSome(LoadSchedule(Midnight(today)))) =>
              LET before == Unwrap(LoadSchedule(Midnight(today))).tasks
                  after == Unwrap(LoadSchedule(Midnight(today))').tasks
              IN  \A i \in DOMAIN before : \E j \in DOMAIN after : after[j] = before[i]
      ]_vars

\* C39: the two implementations of the day's totals agree: for the tasks of
\* a schedule, DailyAccountability::from_tasks gives the total_earned,
\* total_bonus and total_penalty that Schedule::total_earned, total_bonus
\* and total_penalty give.
TotalsAgree ==
    out.op = "from_tasks" =>
        /\ out.daily.total_earned = ScheduleTotalEarned(schedule)
        /\ out.daily.total_bonus = ScheduleTotalBonus(schedule)
        /\ out.daily.total_penalty = ScheduleTotalPenalty(schedule)

\* ------------------------------------------------------- models/stats.rs
\* DailyStats::new
DailyStatsNew(date) ==
    [date |-> date, completion_rate |-> ZeroPercent, time_accuracy |-> None,
     total_tasks |-> 0, completed_tasks |-> 0, focus_time_minutes |-> 0,
     break_time_minutes |-> 0]

\* one task's term of Schedule::time_accuracy:
\* ((estimated - |estimated - actual|) / estimated * 100).max(0.0); the
\* quotient by an estimate of 0 is NaN or -inf, and max(0.0) makes both 0
AccuracyOf(t) ==
    LET estimated == t.estimated_duration_minutes
        diff == Abs(estimated - Unwrap(t.actual_duration_minutes))
        q == Percent(estimated - diff, estimated)
    IN  IF estimated = 0 \/ q.num < 0 THEN ZeroPercent ELSE q

\* the sum of f64 percentages, as an exact quotient
RECURSIVE SumPercent(_)
SumPercent(xs) ==
    IF xs = <<>> THEN ZeroPercent
    ELSE LET a == SumPercent(Tail(xs))
             b == Head(xs)
         IN  [num |-> a.num * b.den + b.num * a.den, den |-> a.den * b.den]

\* Schedule::time_accuracy
TimeAccuracy(s) ==
    LET completed_tasks ==
            SelectSeq(s.tasks, LAMBDA t : t.status = Completed
                                          /\ IsSome(t.actual_duration_minutes))
        total_accuracy ==
            SumPercent([i \in DOMAIN completed_tasks |-> AccuracyOf(completed_tasks[i])])
    IN  IF completed_tasks = <<>> THEN None
        ELSE Some([num |-> total_accuracy.num,
                   den |-> total_accuracy.den * Len(completed_tasks)])

\* ------------------------------------------------------ daemon/tracker.rs
\* TimeTracker::update_stats: the record it saves, from the one it loaded
UpdateStats(st, s) ==
    LET completed == SelectSeq(s.tasks, LAMBDA t : t.status = Completed)
        timed == SelectSeq(completed, LAMBDA t : IsSome(t.actual_duration_minutes))
    IN  [st EXCEPT !.completion_rate = ScheduleCompletionRate(s),
                   !.time_accuracy = TimeAccuracy(s),
                   !.total_tasks = Len(s.tasks),
                   !.completed_tasks = Len(completed),
                   !.focus_time_minutes =
                       SumSeq([i \in DOMAIN timed |->
                                  Unwrap(timed[i].actual_duration_minutes)])]

\* JsonStorage::load_stats
LoadStats(date) == daily_stats[DateNaive(date)]

\* ----------------- processes sharing the files: commands and the daemon
\* the day the processes run on, and the instant their clocks show
ProcDay == 1
ProcInstant == Midnight(ProcDay) + 1

\* the stored schedule of the day: a running task and a pending one
ProcSchedule ==
    [ScheduleNew(Midnight(ProcDay)) EXCEPT
        !.tasks = <<TaskStart(TaskOfInput(1, ProcDay,
                                  [title |-> "a", start_time |-> 0, end_time |-> 1]),
                              Midnight(ProcDay), Midnight(ProcDay)),
                    TaskOfInput(2, ProcDay,
                                [title |-> "b", start_time |-> 1, end_time |-> 2])>>]

\* the commands a process runs: `sched start <id>`, `sched complete`, and
\* the GUI's complete_task(date, index) on the day's date
ProcCommands ==
    [command : {"cli_start"}, arg : 1..2]
    \cup [command : {"cli_complete"}, arg : {0}]
    \cup [command : {"gui_complete"}, arg : 0..1]

IdleProc == [pc |-> "idle", command |-> "none", arg |-> 0, loaded |-> None, schedule |-> None]
IdlePoll == [pc |-> "idle", schedule |-> None, stats |-> None]

InitShared ==
    /\ \/ history = [d \in 1..MaxDay |-> None] /\ current = None
       \/ /\ history = [d \in 1..MaxDay |-> IF d = ProcDay THEN Some(ProcSchedule) ELSE None]
          /\ current = Some(ProcSchedule)
    /\ today = ProcDay
    /\ now = ProcInstant
    /\ procs = [p \in 1..MaxProcs |-> IdleProc]
    /\ poll = IdlePoll
    /\ pid_file = None
    /\ daily_stats = [d \in 1..MaxDay |-> None]
    /\ streak = StreakInfoNew(0)
    /\ psession = PomodoroSessionNew(0)
    /\ cmd = [op |-> "none", ok |-> TRUE]
    /\ out = NoOut
    /\ task = TaskNew(0, "a", 0, 0)
    /\ statuses = {Pending}
    /\ op = "new"
    /\ schedule = InitSchedule
    /\ nextId = 1
    /\ ret = [op |-> "new", start |-> 0, end |-> 0, id |-> 0, ok |-> TRUE, err |-> None]

SharedRest == <<task, now, statuses, op, schedule, nextId, ret, today, cmd, out, psession>>

\* the schedule a command holds after its change in memory, None where the
\* command fails before it saves ("Task not found", "No task is currently
\* in progress", "Task index out of bounds")
Mutated(c, s, n) ==
    CASE c.command = "cli_start" ->
             IF PositionOfId(s, c.arg) = 0 THEN None ELSE Some(StartById(s, c.arg, n))
      [] c.command = "cli_complete" ->
             LET cur == GetCurrentTask(s)
             IN  IF cur = None THEN None
                 ELSE Some([s EXCEPT !.tasks[PositionOfId(s, Unwrap(cur).id)] =
                                         TaskComplete(@, n)])
      [] c.command = "gui_complete" ->
             IF c.arg >= Len(s.tasks) THEN None
             ELSE Some([s EXCEPT !.tasks[c.arg + 1] = TaskComplete(@, n)])

\* a command starts: it loads the schedule (load_today in the CLI,
\* load_schedule(date) in the GUI) and changes its copy in memory
ProcLoad(p) ==
    \E c \in ProcCommands :
        LET loaded == IF c.command = "gui_complete"
                      THEN LoadSchedule(Midnight(ProcDay)) ELSE LoadToday
            mutated == IF loaded = None THEN None ELSE Mutated(c, Unwrap(loaded), now)
        IN  /\ procs[p].pc = "idle"
            /\ procs' = [procs EXCEPT ![p] =
                            [pc |-> IF mutated = None THEN "failed" ELSE "loaded",
                             command |-> c.command, arg |-> c.arg,
                             loaded |-> loaded, schedule |-> mutated]]
            /\ UNCHANGED <<history, current, poll, pid_file, daily_stats, streak, SharedRest>>

\* save_schedule guarded by a version check: it writes only over the
\* schedule the command had loaded
ProcWriteHistoryIfUnchanged(p) ==
    LET s == Unwrap(procs[p].schedule)
    IN  /\ procs[p].pc = "loaded"
        /\ IF LoadSchedule(s.date) = procs[p].loaded
           THEN /\ history' = [history EXCEPT ![DateNaive(s.date)] = Some(s)]
                /\ procs' = [procs EXCEPT ![p].pc = "wrote_history"]
           ELSE /\ history' = history
                /\ procs' = [procs EXCEPT ![p].pc = "failed"]
        /\ UNCHANGED <<current, poll, pid_file, daily_stats, streak, SharedRest>>

\* JsonStorage::save_schedule, its first write: history/<date>.json
ProcWriteHistory(p) ==
    LET s == Unwrap(procs[p].schedule)
    IN  /\ procs[p].pc = "loaded"
        /\ history' = [history EXCEPT ![DateNaive(s.date)] = Some(s)]
        /\ procs' = [procs EXCEPT ![p].pc = "wrote_history"]
        /\ UNCHANGED <<current, poll, pid_file, daily_stats, streak, SharedRest>>

\* JsonStorage::save_schedule, its second write: current.json when the
\* schedule is of the clock's day; the command then ends
ProcWriteCurrent(p) ==
    LET s == Unwrap(procs[p].schedule)
    IN  /\ procs[p].pc = "wrote_history"
        /\ current' = IF DateNaive(s.date) = today THEN Some(s) ELSE current
        /\ procs' = [procs EXCEPT ![p].pc = "done"]
        /\ UNCHANGED <<history, poll, pid_file, daily_stats, streak, SharedRest>>

\* TimeTracker::update begins: load_today; with no schedule the iteration
\* is over
PollLoadToday ==
    /\ poll.pc = "idle"
    /\ poll' = IF LoadToday = None THEN IdlePoll
               ELSE [pc |-> "loaded", schedule |-> LoadToday, stats |-> None]
    /\ UNCHANGED <<history, current, procs, pid_file, daily_stats, streak, SharedRest>>

\* update_stats begins: load_stats(Local::now()), or DailyStats::new
PollLoadStats ==
    /\ poll.pc = "loaded"
    /\ poll' = [poll EXCEPT !.pc = "stats_loaded",
                            !.stats = IF IsSome(LoadStats(now)) THEN LoadStats(now)
                                      ELSE Some(DailyStatsNew(now))]
    /\ UNCHANGED <<history, current, procs, pid_file, daily_stats, streak, SharedRest>>

\* update_stats saving the schedule it read along with the statistics
PollSaveStatsAndSchedule ==
    LET st == UpdateStats(Unwrap(poll.stats), Unwrap(poll.schedule))
    IN  /\ poll.pc = "stats_loaded"
        /\ daily_stats' = [daily_stats EXCEPT ![DateNaive(st.date)] = Some(st)]
        /\ history' = [history EXCEPT ![DateNaive(Unwrap(poll.schedule).date)] = poll.schedule]
        /\ poll' = IdlePoll
        /\ UNCHANGED <<current, procs, pid_file, streak, SharedRest>>

\* update_stats ends: the fields are set and save_stats writes the record
PollSaveStats ==
    LET st == UpdateStats(Unwrap(poll.stats), Unwrap(poll.schedule))
    IN  /\ poll.pc = "stats_loaded"
        /\ daily_stats' = [daily_stats EXCEPT ![DateNaive(st.date)] = Some(st)]
        /\ poll' = IdlePoll
        /\ UNCHANGED <<history, current, procs, pid_file, streak, SharedRest>>

NextShared ==
    \/ \E p \in 1..MaxProcs : ProcLoad(p)
    \/ \E p \in 1..MaxProcs : ProcWriteHistory(p)
    \/ \E p \in 1..MaxProcs : ProcWriteCurrent(p)
    \/ PollLoadToday
    \/ PollLoadStats
    \/ PollSaveStats

SpecShared == InitShared /\ [][NextShared]_vars

\* C35: persistence has no lock and no version check: a command that has
\* loaded a schedule always gets to save, and its save stores exactly the
\* schedule it holds in memory, whatever other processes stored since it
\* loaded; so two commands that loaded the same schedule both save, and
\* what is stored in the end holds the change of the last writer only.
LastWriterWins ==
    [][\A p \in 1..MaxProcs :
           /\ (procs[p].pc = "loaded" /\ procs'[p] /= procs[p]) =>
                  /\ procs'[p].pc = "wrote_history"
                  /\ history'[ProcDay] = procs[p].schedule
           /\ (procs[p].pc = "wrote_history" /\ procs'[p] /= procs[p]) =>
                  /\ procs'[p].pc = "done"
                  /\ current' = procs[p].schedule
      ]_vars

\* both commands loaded the stored schedule, one completed its first task
\* and the other its second, both saved: the first completion is lost
LostUpdateWitness ==
    /\ \A p \in 1..MaxProcs : procs[p].pc = "done" /\ procs[p].loaded = Some(ProcSchedule)
    /\ procs[1].command = "cli_complete"
    /\ procs[2].command = "gui_complete" /\ procs[2].arg = 1
    /\ Unwrap(procs[1].schedule).tasks[1].status = Completed
    /\ LET stored == Unwrap(LoadSchedule(Midnight(ProcDay)))
       IN  /\ stored.tasks[1].status = InProgress
           /\ stored.tasks[2].status = Completed
           /\ LoadToday = Some(stored)
           /\ stored = Unwrap(procs[2].schedule)

\* C36: a poll of the daemon writes no schedule file and not the streak
\* record: it writes only the statistics record of the clock's day, and
\* only after load_today returned a schedule; every change of a schedule
\* file is the save of a command.
PollWritesOnlyStats ==
    [][/\ poll' /= poll => (history' = history /\ current' = current /\ streak' = streak)
       /\ daily_stats' /= daily_stats =>
              /\ poll.pc = "stats_loaded" /\ IsSome(poll.schedule)
              /\ \A d \in DOMAIN daily_stats : d /= today => daily_stats'[d] = daily_stats[d]
              /\ daily_stats'[today] =
                     Some(UpdateStats(Unwrap(poll.stats), Unwrap(poll.schedule)))
       /\ (LoadToday = None /\ poll.pc = "idle") => daily_stats' = daily_stats
       /\ (history' /= history \/ current' /= current) =>
              \E p \in 1..MaxProcs :
                  /\ procs[p].pc \in {"loaded", "wrote_history"}
                  /\ procs'[p] /= procs[p]
                  /\ history'[ProcDay] \in {history[ProcDay], procs[p].schedule}
                  /\ current' \in {current, procs[p].schedule}
      ]_vars

\* a poll that loaded the schedule before a command completed a task saved
\* its statistics after the command's save: the stored schedule keeps the
\* completion the statistics do not count
PollWitness ==
    /\ poll.pc = "idle"
    /\ IsSome(daily_stats[ProcDay])
    /\ Unwrap(daily_stats[ProcDay]).total_tasks = 2
    /\ Unwrap(daily_stats[ProcDay]).completed_tasks = 0
    /\ \E p \in 1..MaxProcs : procs[p].pc = "done"
    /\ IsSome(LoadToday)
    /\ Unwrap(LoadToday).tasks[1].status = Completed

\* ------------------------------------------------------ daemon/process.rs
\* DaemonProcess::is_running: daemon.pid exists and holds a number
IsRunning == IsSome(pid_file)

IdleDaemonProc == [pc |-> "idle", command |-> "none", running |-> FALSE]

InitDaemon ==
    /\ procs = [p \in 1..MaxDaemonProcs |-> IdleDaemonProc]
    /\ pid_file = None
    /\ poll = None
    /\ daily_stats = None
    /\ history = [d \in 1..MaxDay |-> None]
    /\ current = None
    /\ today = 1
    /\ now = 0
    /\ streak = StreakInfoNew(0)
    /\ psession = PomodoroSessionNew(0)
    /\ cmd = [op |-> "none", ok |-> TRUE]
    /\ out = NoOut
    /\ task = TaskNew(0, "a", 0, 0)
    /\ statuses = {Pending}
    /\ op = "new"
    /\ schedule = InitSchedule
    /\ nextId = 1
    /\ ret = [op |-> "new", start |-> 0, end |-> 0, id |-> 0, ok |-> TRUE, err |-> None]

DaemonRest ==
    <<task, now, statuses, op, schedule, nextId, ret, history, current, today, cmd, out,
      psession, streak, poll, daily_stats>>

\* cli/commands.rs daemon_command: `sched daemon start | stop | status`
\* makes a DaemonProcess and asks is_running.  start goes on to write_pid
\* when no daemon is seen, and bails with "Daemon is already running"
\* otherwise; stop goes on to remove_pid when one is seen, and bails with
\* "Daemon is not running" otherwise; status prints what it saw.  A command
\* that bailed or printed returns, and its DaemonProcess is dropped.
DaemonCheck(p) ==
    \E command \in {"start", "stop", "status"} :
        /\ procs[p].pc = "idle"
        /\ procs' = [procs EXCEPT ![p] =
                        [pc |-> CASE command = "start" /\ ~IsRunning -> "writing"
                                  [] command = "stop" /\ IsRunning -> "removing"
                                  [] OTHER -> "dropping",
                         command |-> command, running |-> IsRunning]]
        /\ UNCHANGED <<pid_file, DaemonRest>>

\* DaemonProcess::start, after the check: write_pid; daemon_command then
\* runs TimeTracker::start, whose loop does not end
DaemonWritePid(p) ==
    /\ procs[p].pc = "writing"
    /\ pid_file' = Some(p)
    /\ procs' = [procs EXCEPT ![p].pc = "polling"]
    /\ UNCHANGED DaemonRest

\* DaemonProcess::stop, after the check: remove_pid; the command returns
DaemonRemovePid(p) ==
    /\ procs[p].pc = "removing"
    /\ pid_file' = None
    /\ procs' = [procs EXCEPT ![p].pc = "dropping"]
    /\ UNCHANGED DaemonRest

\* Drop for DaemonProcess, as daemon_command returns: remove_pid
DaemonDrop(p) ==
    /\ procs[p].pc = "dropping"
    /\ pid_file' = None
    /\ procs' = [procs EXCEPT ![p].pc = "idle"]
    /\ UNCHANGED DaemonRest

\* the CTRL+C handler of a running daemon: std::process::exit(0), which
\* runs no destructor
DaemonExit(p) ==
    /\ procs[p].pc = "polling"
    /\ procs' = [procs EXCEPT ![p] = IdleDaemonProc]
    /\ UNCHANGED <<pid_file, DaemonRest>>

NextDaemon ==
    \/ \E p \in 1..MaxDaemonProcs : DaemonCheck(p)
    \/ \E p \in 1..MaxDaemonProcs : DaemonWritePid(p)
    \/ \E p \in 1..MaxDaemonProcs : DaemonRemovePid(p)
    \/ \E p \in 1..MaxDaemonProcs : DaemonDrop(p)
    \/ \E p \in 1..MaxDaemonProcs : DaemonExit(p)

SpecDaemon == InitDaemon /\ [][NextDaemon]_vars

\* the processes in the daemon's poll loop
Polling == {p \in 1..MaxDaemonProcs : procs[p].pc = "polling"}

\* C40: at most one daemon runs at a time: a `daemon start` issued while a
\* daemon is in its poll loop sees it running and fails, and a `daemon
\* status` command changes nothing that a later status or start observes.
AtMostOneDaemon ==
    [][/\ Cardinality(Polling') <= 1
       /\ \A p \in 1..MaxDaemonProcs :
              /\ (procs[p].pc = "idle" /\ procs'[p].command = "start" /\ Polling /= {}) =>
                     (procs'[p].running /\ procs'[p].pc = "dropping")
              /\ (procs[p].command = "status" /\ procs'[p] /= procs[p]) =>
                     IsRunning' = IsRunning
      ]_vars

====
